---------------------------- MODULE Spec2Model ----------------------------
(***************************************************************************)
(* Model of the incremental traversal recorder of Catch2's reporters:      *)
(*   IncrementalSectionTraversal / IncrementalReporterBase                  *)
(*     (catch_reporter_incremental_base.cpp)                                *)
(*   StreamingReporterUnwindContext / VstestReporter                        *)
(*     (catch_reporter_vstest.cpp)                                          *)
(* Texts are sequences of the strings inserted into them; names are         *)
(* sequences of one-character strings.                                      *)
(***************************************************************************)
EXTENDS Integers, Sequences, FiniteSets, TLC

(***************************************************************************)
(* Bounds of the model.                                                     *)
(***************************************************************************)
\* section infos (and section stats) held by all records together
MaxSections == 3
\* retained assertions of all records together
MaxAssertions == 1
\* records that carry a fatal-signal name
MaxFatal == 1
\* pieces of text held by all streams and capture stores together
MaxText == 2
\* reading of the system clock
MaxClock == 1
\* unwind contexts held by the vstest reporter (completed and current)
MaxUnwinds == 3
\* writes to a redirected channel
MaxWrites == 3
\* backing stores opened on a channel
MaxStores == 4
\* sinks alive on a channel at the same time
MaxSinks == 2
\* characters of a section name drawn from the alphabet of names
MaxNameLen == 4
\* whole hours of a rendered duration
MaxHours == 99

(***************************************************************************)
(* Values delivered by the event feed.                                      *)
(***************************************************************************)
\* SectionInfo: name and SourceLineInfo line
SectionA == [name |-> <<"A">>, line |-> 1]

SectionB == [name |-> <<"B">>, line |-> 2]

\* a section named as SectionA that is declared on another line
SectionA3 == [name |-> <<"A">>, line |-> 3]

SectionX == [name |-> <<"X">>, line |-> 4]

SectionC == [name |-> <<"C">>, line |-> 5]

SectionY == [name |-> <<"Y">>, line |-> 6]

SectionRoot == [name |-> <<"R", "o", "o", "t">>, line |-> 7]

SectionLeaf1 == [name |-> <<"l", "1">>, line |-> 8]

SectionLeaf2 == [name |-> <<"l", "2">>, line |-> 9]

\* the sections of the test cases Root{A{l1, l2}} and X, and for each the
\* sections that enclose it
TreeSections ==
    { SectionRoot, SectionA, SectionLeaf1, SectionLeaf2, SectionX }

EnclosingSections(sectionInfo) ==
    IF sectionInfo = SectionA THEN << SectionRoot >>
    ELSE IF sectionInfo \in { SectionLeaf1, SectionLeaf2 }
    THEN << SectionRoot, SectionA >>
    ELSE <<>>

\* the outermost sections of test cases, and the sections inside them
RootSections == { SectionA, SectionA3, SectionX }

LeafSections == { SectionB, SectionC, SectionY }

SectionInfos == { SectionA, SectionB }

\* SectionStats: the completion record of a section (carries its SectionInfo)
SectionStatsOf(info) == [sectionInfo |-> info]

SectionStatsSet == { SectionStatsOf(i) : i \in SectionInfos }

\* AssertionStats: result (isOk), source info, expanded expression, messages
PassingAssertion ==
    [ok |-> TRUE, file |-> "f.cpp", line |-> 10, expanded |-> "1 == 1",
     infoMessages |-> <<>>]

FailingAssertionWithInfo ==
    [ok |-> FALSE, file |-> "f.cpp", line |-> 20, expanded |-> "2 == 1",
     infoMessages |-> <<"m">>]

FailingAssertion ==
    [ok |-> FALSE, file |-> "g.cpp", line |-> 30, expanded |-> "",
     infoMessages |-> <<>>]

AssertionStatsSet ==
    { PassingAssertion, FailingAssertionWithInfo, FailingAssertion }

\* signal names of fatalErrorEncountered( StringRef )
SignalNames == { "", "SIGSEGV" }

TestRunInfos == { "run1", "run2" }

GroupInfos == { [name |-> "g1", groupIndex |-> 1],
                [name |-> "g2", groupIndex |-> 2] }

TagLists == { <<>>, <<"t">> }

\* TestCaseStats::stdOut / stdErr of testCaseEnded
CaseTexts == { "", "c" }

\* what a test writes to a redirected channel
WrittenTexts == { "w" }

\* which channels the configuration redirects per traversal
\* (standardOutputRedirect() / standardErrorRedirect() non-null, in a build
\* with CATCH_CONFIG_EXPERIMENTAL_REDIRECT)
RedirectConfigs ==
    { [standardOutputRedirect |-> FALSE, standardErrorRedirect |-> FALSE],
      [standardOutputRedirect |-> TRUE,  standardErrorRedirect |-> TRUE] }

VARIABLES
    \* IConfig, as far as the reporters read it
    m_config,
    \* IncrementalReporterBase
    m_currentTestRunInfo,
    m_currentTestGroupInfo,
    m_currentTestTags,
    m_completedTraversals,
    m_currentTraversal,
    \* contents of the OutputRedirectSink objects of the configuration
    stdOutSink,
    stdErrSink,
    \* std::chrono::system_clock
    clock,
    \* the event feed: the event just delivered, the runner's open sections,
    \* whether every sectionEnd so far closed the innermost open section,
    \* whether a fatalSignal was delivered since the current record began,
    \* and, while the stream is well formed, the sections started since the
    \* nesting depth was last zero and the lists of sections started between
    \* two returns of the depth to zero
    lastEvent,
    activeSections,
    wellFormed,
    signalled,
    startedSections,
    closedPaths,
    \* what the handler of the event just delivered returned: empty for a
    \* handler that returns nothing
    returned,
    \* the hook call made while handling the event just delivered
    hookCall,
    \* OutputRedirectSink: the bytes of the file of m_tempFile, the offset of
    \* the open file description that the file and the redirected channel
    \* share, and the read cursor
    m_tempFile,
    fileOffset,
    m_lastGetPosition,
    \* the last call made on the sink and what it returned
    sinkCall,
    \* the bytes written to the channel since the sink was created, since
    \* the last read call, and since the last reset; how many read calls
    \* were made since the last reset; whether reset was ever called
    written,
    unread,
    sinceReset,
    readsSinceReset,
    wasReset,
    \* the redirected channel: what its descriptor is bound to (the original
    \* destination or the number of a backing store), the sinks alive on it
    \* in the order of their construction, each with the destination its
    \* constructor saved, the store it has open and whether that store has
    \* a path, how many stores were opened so far, and the bytes that
    \* reached the original destination
    channel,
    liveSinks,
    storeCount,
    original,
    \* a thread that flushes the sink: where it is in the flush and the
    \* bytes its reads returned
    flushStep,
    flushedText,
    \* the last call of nanosToDurationString: its argument and its result
    durationCall,
    \* VstestReporter
    m_xml,
    m_emissionType,
    m_timer,
    m_currentTestCaseTags,
    m_completedTestEntries,
    m_currentUnwindContext

vars == << m_config, m_currentTestRunInfo, m_currentTestGroupInfo,
           m_currentTestTags, m_completedTraversals, m_currentTraversal,
           stdOutSink, stdErrSink, clock, lastEvent, activeSections,
           wellFormed, signalled, startedSections, closedPaths, returned,
           hookCall, m_tempFile, fileOffset, m_lastGetPosition, sinkCall,
           written, unread, sinceReset, readsSinceReset, wasReset, channel,
           liveSinks, storeCount, original, flushStep, flushedText,
           durationCall, m_xml,
           m_emissionType, m_timer,
           m_currentTestCaseTags, m_completedTestEntries,
           m_currentUnwindContext >>

\* the state of the incremental reporter and of what it reads
incVars == << m_currentTestRunInfo, m_currentTestGroupInfo,
              m_currentTestTags, m_completedTraversals, m_currentTraversal,
              stdOutSink, stdErrSink, clock, hookCall >>

\* the state of the vstest reporter
vstestVars == << m_xml, m_emissionType, m_timer, m_currentTestCaseTags,
                m_completedTestEntries, m_currentUnwindContext >>

\* the state of a capture sink and of the channel it redirects, and what
\* else no reporter handler changes
sinkVars == << m_tempFile, fileOffset, m_lastGetPosition, sinkCall, written,
              unread, sinceReset, readsSinceReset, wasReset, channel,
              liveSinks, storeCount, original, flushStep, flushedText,
              durationCall >>

\* the binding of the channel and the thread that flushes
channelVars == << channel, liveSinks, storeCount, original, flushStep,
                 flushedText >>

\* the state of the event feed
feedVars == << lastEvent, activeSections, wellFormed, signalled,
              startedSections, closedPaths, returned >>

(***************************************************************************)
(* Helpers on sequences and texts.                                          *)
(***************************************************************************)
Last(s) == s[Len(s)]

IsPrefix(s, t) == Len(s) <= Len(t) /\ SubSeq(t, 1, Len(s)) = s

\* variant of stream << str: the string is put in front of the text
InsertFront(text, str) == IF str = "" THEN text ELSE << str >> \o text

\* stream << str : inserting an empty string leaves the text as it is
Insert(text, str) == IF str = "" THEN text ELSE Append(text, str)

\* stream << contents of a capture store
InsertAll(text, pieces) == text \o pieces

(***************************************************************************)
(* IncrementalSectionTraversal                                              *)
(***************************************************************************)
\* IncrementalSectionTraversal::IncrementalSectionTraversal()
NewTraversal(now) ==
    [ allSectionInfo |-> <<>>,
      allSectionStats |-> <<>>,
      allAssertionsWithExpansions |-> <<>>,
      fatalSignalName |-> "",
      fatalSignalSourceInfo |-> [file |-> "", line |-> 0],
      testRunInfo |-> "",
      testGroupInfo |-> [name |-> "", groupIndex |-> 0],
      testTags |-> <<>>,
      startTime |-> now,
      finishTime |-> now,
      m_stdOutStream |-> <<>>,
      m_stdErrStream |-> <<>>,
      m_stdOutSourceSink |-> FALSE,
      m_stdErrSourceSink |-> FALSE ]

\* variant of the move: the record is copied and keeps what it holds
NotMoved(t) == t

\* The object left behind by the defaulted move constructor: containers,
\* strings, streams and owning pointers are emptied, scalars are copied.
MovedFrom(t) ==
    [ allSectionInfo |-> <<>>,
      allSectionStats |-> <<>>,
      allAssertionsWithExpansions |-> <<>>,
      fatalSignalName |-> "",
      fatalSignalSourceInfo |-> [file |-> "", line |-> t.fatalSignalSourceInfo.line],
      testRunInfo |-> "",
      testGroupInfo |-> [name |-> "", groupIndex |-> t.testGroupInfo.groupIndex],
      testTags |-> <<>>,
      startTime |-> t.startTime,
      finishTime |-> t.finishTime,
      m_stdOutStream |-> <<>>,
      m_stdErrStream |-> <<>>,
      m_stdOutSourceSink |-> FALSE,
      m_stdErrSourceSink |-> FALSE ]

\* variant of getFlushedStdOut: the contents are read and the sink is not
\* reset
getFlushedStdOutWithoutReset(t, sink) ==
    IF t.m_stdOutSourceSink
    THEN [trav |-> [t EXCEPT !.m_stdOutStream = InsertAll(@, sink)],
          sink |-> sink]
    ELSE [trav |-> t, sink |-> sink]

\* IncrementalSectionTraversal::getFlushedStdOut: the record and the sink
\* contents after the call
getFlushedStdOut(t, sink) ==
    IF t.m_stdOutSourceSink
    THEN [trav |-> [t EXCEPT !.m_stdOutStream = InsertAll(@, sink)],
          sink |-> <<>>]
    ELSE [trav |-> t, sink |-> sink]

\* IncrementalSectionTraversal::getFlushedStdErr
getFlushedStdErr(t, sink) ==
    IF t.m_stdErrSourceSink
    THEN [trav |-> [t EXCEPT !.m_stdErrStream = InsertAll(@, sink)],
          sink |-> <<>>]
    ELSE [trav |-> t, sink |-> sink]

\* the lines "INFO: <message>\n" of the informational messages
RECURSIVE InfoLines(_)
InfoLines(msgs) ==
    IF msgs = <<>> THEN <<>>
    ELSE << "INFO: " \o Head(msgs) \o "\n" >> \o InfoLines(Tail(msgs))

\* variant of addAssertion: the lines of the messages are written before
\* the sink is flushed
addAssertionInfoFirst(t, sink, assertion) ==
    IF t.fatalSignalName # ""
    THEN [trav |-> [t EXCEPT !.fatalSignalSourceInfo =
                        [file |-> assertion.file, line |-> assertion.line]],
          sink |-> sink]
    ELSE LET pushed == [t EXCEPT
                           !.allAssertionsWithExpansions =
                               Append(@, <<assertion, assertion.expanded>>),
                           !.m_stdOutStream =
                               InsertAll(@, InfoLines(assertion.infoMessages))]
         IN  getFlushedStdOut(pushed, sink)

\* IncrementalSectionTraversal::addAssertion
addAssertion(t, sink, assertion) ==
    IF t.fatalSignalName # ""
    THEN [trav |-> [t EXCEPT !.fatalSignalSourceInfo =
                        [file |-> assertion.file, line |-> assertion.line]],
          sink |-> sink]
    ELSE LET pushed == [t EXCEPT !.allAssertionsWithExpansions =
                           Append(@, <<assertion, assertion.expanded>>)]
             flushed == getFlushedStdOut(pushed, sink)
         IN  [trav |-> [flushed.trav EXCEPT !.m_stdOutStream =
                           InsertAll(@, InfoLines(assertion.infoMessages))],
              sink |-> flushed.sink]

\* variant of isComplete: complete as soon as a section has ended
isCompleteEarly(t) ==
    /\ t.allSectionInfo # <<>>
    /\ t.allSectionStats # <<>>

\* variant of isComplete: complete whenever the two lists are equally long
isCompleteEmpty(t) ==
    Len(t.allSectionInfo) = Len(t.allSectionStats)

\* variant of isComplete: a record with one section is never complete
isCompleteOnlyNested(t) ==
    /\ Len(t.allSectionInfo) > 1
    /\ Len(t.allSectionInfo) = Len(t.allSectionStats)

\* IncrementalSectionTraversal::isComplete
isComplete(t) ==
    /\ t.allSectionInfo # <<>>
    /\ Len(t.allSectionInfo) = Len(t.allSectionStats)

\* variant of isOk: the fatal-signal name is not looked at
isOkIgnoringFatal(t) ==
    /\ isComplete(t)
    /\ \A i \in 1..Len(t.allAssertionsWithExpansions) :
          t.allAssertionsWithExpansions[i][1].ok

\* IncrementalSectionTraversal::isOk
isOk(t) ==
    /\ isComplete(t)
    /\ t.fatalSignalName = ""
    /\ \A i \in 1..Len(t.allAssertionsWithExpansions) :
          t.allAssertionsWithExpansions[i][1].ok

\* IncrementalSectionTraversal::setRedirectSinksFromConfig
setRedirectSinksFromConfig(t, config) ==
    [t EXCEPT !.m_stdOutSourceSink = config.standardOutputRedirect,
              !.m_stdErrSourceSink = config.standardErrorRedirect]

\* IncrementalSectionTraversal::setRedirectSinksFromPredecessor: the record
\* that takes the sinks over
setRedirectSinksFromPredecessor(t, predecessor) ==
    [t EXCEPT !.m_stdOutSourceSink = predecessor.m_stdOutSourceSink,
              !.m_stdErrSourceSink = predecessor.m_stdErrSourceSink]

\* variant of release(): the predecessor keeps its sinks
KeptSinks(predecessor) == predecessor

\* the predecessor after unique_ptr::release()
ReleasedSinks(predecessor) ==
    [predecessor EXCEPT !.m_stdOutSourceSink = FALSE,
                        !.m_stdErrSourceSink = FALSE]

(***************************************************************************)
(* IncrementalReporterBase                                                  *)
(***************************************************************************)
\* variant of getTraversals: the current record comes first
TraversalsCurrentFirst(completed, current) ==
    IF current.allSectionInfo # <<>>
    THEN << current >> \o completed
    ELSE completed

\* IncrementalReporterBase::getTraversals, on a given pair of collections
Traversals(completed, current) ==
    IF current.allSectionInfo # <<>>
    THEN Append(completed, current)
    ELSE completed

getTraversals == Traversals(m_completedTraversals, m_currentTraversal)

\* the hook call recorded for an event that calls no hook
NoHook == [hook |-> "none", traversals |-> <<>>]

\* what one record holds
InfoCount(t) == Len(t.allSectionInfo)
StatsCount(t) == Len(t.allSectionStats)
AssertionCount(t) == Len(t.allAssertionsWithExpansions)
TextCount(t) == Len(t.m_stdOutStream) + Len(t.m_stdErrStream)
FatalCount(t) == IF t.fatalSignalName # "" THEN 1 ELSE 0

\* what all records of the reporter hold together
Total(Count(_)) ==
    LET done == m_completedTraversals
        upTo[n \in 0..Len(done)] ==
            IF n = 0 THEN 0 ELSE Count(done[n]) + upTo[n - 1]
    IN  upTo[Len(done)] + Count(m_currentTraversal)

\* the state stays within the bounds of the model
Bounded ==
    /\ Total(InfoCount) <= MaxSections
    /\ Total(StatsCount) <= MaxSections
    /\ Total(AssertionCount) <= MaxAssertions
    /\ Total(FatalCount) <= MaxFatal
    /\ Total(TextCount) + Len(stdOutSink) + Len(stdErrSink) <= MaxText

\* IncrementalReporterBase::IncrementalReporterBase
InitReporter(config) ==
    /\ m_config = config
    /\ m_currentTestRunInfo = ""
    /\ m_currentTestGroupInfo = [name |-> "", groupIndex |-> 0]
    /\ m_currentTestTags = <<>>
    /\ m_completedTraversals = <<>>
    /\ m_currentTraversal = setRedirectSinksFromConfig(NewTraversal(0), config)
    /\ stdOutSink = <<>>
    /\ stdErrSink = <<>>
    /\ clock = 0
    /\ hookCall = NoHook

\* the event feed before its first event
InitFeed ==
    /\ lastEvent = "constructed"
    /\ activeSections = <<>>
    /\ wellFormed = TRUE
    /\ signalled = FALSE
    /\ startedSections = <<>>
    /\ closedPaths = <<>>
    /\ returned = <<>>

\* IncrementalReporterBase::testRunStarting
testRunStarting(testRunInfo) ==
    /\ m_currentTestRunInfo' = testRunInfo
    /\ hookCall' = NoHook
    /\ UNCHANGED << m_currentTestGroupInfo, m_currentTestTags,
                    m_completedTraversals, m_currentTraversal, stdOutSink,
                    stdErrSink, clock >>

\* IncrementalReporterBase::testGroupStarting
testGroupStarting(testGroupInfo) ==
    /\ m_currentTestGroupInfo' = testGroupInfo
    /\ hookCall' = NoHook
    /\ UNCHANGED << m_currentTestRunInfo, m_currentTestTags,
                    m_completedTraversals, m_currentTraversal, stdOutSink,
                    stdErrSink, clock >>

\* IncrementalReporterBase::testCaseStarting
testCaseStarting(tags) ==
    /\ m_currentTestTags' = tags
    /\ hookCall' = NoHook
    /\ UNCHANGED << m_currentTestRunInfo, m_currentTestGroupInfo,
                    m_completedTraversals, m_currentTraversal, stdOutSink,
                    stdErrSink, clock >>

\* the current record after the first-section branch of sectionStarting
StampedTraversal(t, now) ==
    [t EXCEPT !.startTime = now,
              !.testRunInfo = m_currentTestRunInfo,
              !.testGroupInfo = m_currentTestGroupInfo,
              !.testTags = m_currentTestTags]

\* variant of sectionStarting: the hook is called after the section is
\* appended to the path
sectionStartingHookAfterAppend(sectionInfo) ==
    /\ IF m_currentTraversal.allSectionInfo = <<>>
       THEN LET stamped == StampedTraversal(m_currentTraversal, clock)
                appended == [stamped EXCEPT
                                !.allSectionInfo = Append(@, sectionInfo)]
            IN  /\ hookCall' =
                      [hook |-> "sectionTraversalStarting",
                       traversals |-> Traversals(m_completedTraversals, appended)]
                /\ m_currentTraversal' = appended
       ELSE /\ hookCall' = NoHook
            /\ m_currentTraversal' =
                  [m_currentTraversal EXCEPT
                      !.allSectionInfo = Append(@, sectionInfo)]
    /\ UNCHANGED << m_currentTestRunInfo, m_currentTestGroupInfo,
                    m_currentTestTags, m_completedTraversals, stdOutSink,
                    stdErrSink, clock >>

\* variant of sectionStarting: the section is put in front of the path
sectionStartingPrepending(sectionInfo) ==
    /\ IF m_currentTraversal.allSectionInfo = <<>>
       THEN LET stamped == StampedTraversal(m_currentTraversal, clock)
            IN  /\ hookCall' =
                      [hook |-> "sectionTraversalStarting",
                       traversals |-> Traversals(m_completedTraversals, stamped)]
                /\ m_currentTraversal' =
                      [stamped EXCEPT !.allSectionInfo = << sectionInfo >> \o @]
       ELSE /\ hookCall' = NoHook
            /\ m_currentTraversal' =
                  [m_currentTraversal EXCEPT
                      !.allSectionInfo = << sectionInfo >> \o @]
    /\ UNCHANGED << m_currentTestRunInfo, m_currentTestGroupInfo,
                    m_currentTestTags, m_completedTraversals, stdOutSink,
                    stdErrSink, clock >>

\* variant of sectionStarting: the hook is called at every section start
sectionStartingHookAlways(sectionInfo) ==
    /\ LET stamped == IF m_currentTraversal.allSectionInfo = <<>>
                      THEN StampedTraversal(m_currentTraversal, clock)
                      ELSE m_currentTraversal
       IN  /\ hookCall' =
                 [hook |-> "sectionTraversalStarting",
                  traversals |-> Traversals(m_completedTraversals, stamped)]
           /\ m_currentTraversal' =
                 [stamped EXCEPT !.allSectionInfo = Append(@, sectionInfo)]
    /\ UNCHANGED << m_currentTestRunInfo, m_currentTestGroupInfo,
                    m_currentTestTags, m_completedTraversals, stdOutSink,
                    stdErrSink, clock >>

\* IncrementalReporterBase::sectionStarting
sectionStarting(sectionInfo) ==
    /\ IF m_currentTraversal.allSectionInfo = <<>>
       THEN LET stamped == StampedTraversal(m_currentTraversal, clock)
               IN  /\ hookCall' =
                         [hook |-> "sectionTraversalStarting",
                          traversals |-> Traversals(m_completedTraversals, stamped)]
                   /\ m_currentTraversal' =
                         [stamped EXCEPT !.allSectionInfo = Append(@, sectionInfo)]
       ELSE /\ hookCall' = NoHook
            /\ m_currentTraversal' =
                  [m_currentTraversal EXCEPT
                      !.allSectionInfo = Append(@, sectionInfo)]
    /\ UNCHANGED << m_currentTestRunInfo, m_currentTestGroupInfo,
                    m_currentTestTags, m_completedTraversals, stdOutSink,
                    stdErrSink, clock >>

\* variant of assertionEnded: every assertion is forwarded to the record
assertionEndedForwardingAll(assertionStats) ==
    /\ LET added == addAssertion(m_currentTraversal, stdOutSink,
                                 assertionStats)
       IN  /\ m_currentTraversal' = added.trav
           /\ stdOutSink' = added.sink
    /\ hookCall' = NoHook
    /\ UNCHANGED << m_currentTestRunInfo, m_currentTestGroupInfo,
                    m_currentTestTags, m_completedTraversals, stdErrSink,
                    clock >>

\* IncrementalReporterBase::assertionEnded
assertionEnded(assertionStats) ==
    /\ IF ~assertionStats.ok
       THEN LET added == addAssertion(m_currentTraversal, stdOutSink,
                                      assertionStats)
            IN  /\ m_currentTraversal' = added.trav
                /\ stdOutSink' = added.sink
       ELSE UNCHANGED << m_currentTraversal, stdOutSink >>
    /\ hookCall' = NoHook
    /\ UNCHANGED << m_currentTestRunInfo, m_currentTestGroupInfo,
                    m_currentTestTags, m_completedTraversals, stdErrSink,
                    clock >>

\* variant of sectionEnded: the hook is called before the record is moved
\* to the completed collection
sectionEndedHookBeforeMove(sectionStats) ==
    /\ LET pushed == [m_currentTraversal EXCEPT
                         !.allSectionStats = Append(@, sectionStats)]
       IN  IF isComplete(pushed)
           THEN LET out == getFlushedStdOut(pushed, stdOutSink)
                    err == getFlushedStdErr(out.trav, stdErrSink)
                    finished == [err.trav EXCEPT !.finishTime = clock]
                    fresh == setRedirectSinksFromPredecessor(
                                 MovedFrom(finished), finished)
                    completed == Append(m_completedTraversals,
                                        ReleasedSinks(finished))
                IN  /\ stdOutSink' = out.sink
                    /\ stdErrSink' = err.sink
                    /\ m_completedTraversals' = completed
                    /\ m_currentTraversal' = fresh
                    /\ hookCall' =
                          [hook |-> "sectionTraversalEnded",
                           traversals |->
                               Traversals(m_completedTraversals, finished)]
           ELSE /\ m_currentTraversal' = pushed
                /\ hookCall' = NoHook
                /\ UNCHANGED << m_completedTraversals, stdOutSink,
                                stdErrSink >>
    /\ UNCHANGED << m_currentTestRunInfo, m_currentTestGroupInfo,
                    m_currentTestTags, clock >>

\* variant of sectionEnded: a sectionEnd that matches no started section is
\* rejected
sectionEndedRejectingUnmatched(sectionStats) ==
    /\ Len(m_currentTraversal.allSectionStats) <
          Len(m_currentTraversal.allSectionInfo)
    /\ LET pushed == [m_currentTraversal EXCEPT
                         !.allSectionStats = Append(@, sectionStats)]
       IN  IF isComplete(pushed)
           THEN LET out == getFlushedStdOut(pushed, stdOutSink)
                    err == getFlushedStdErr(out.trav, stdErrSink)
                    finished == [err.trav EXCEPT !.finishTime = clock]
                    fresh == setRedirectSinksFromPredecessor(
                                 MovedFrom(finished), finished)
                    completed == Append(m_completedTraversals,
                                        ReleasedSinks(finished))
                IN  /\ stdOutSink' = out.sink
                    /\ stdErrSink' = err.sink
                    /\ m_completedTraversals' = completed
                    /\ m_currentTraversal' = fresh
                    /\ hookCall' =
                          [hook |-> "sectionTraversalEnded",
                           traversals |-> Traversals(completed, fresh)]
           ELSE /\ m_currentTraversal' = pushed
                /\ hookCall' = NoHook
                /\ UNCHANGED << m_completedTraversals, stdOutSink,
                                stdErrSink >>
    /\ UNCHANGED << m_currentTestRunInfo, m_currentTestGroupInfo,
                    m_currentTestTags, clock >>

\* IncrementalReporterBase::sectionEnded
sectionEnded(sectionStats) ==
    /\ LET pushed == [m_currentTraversal EXCEPT
                         !.allSectionStats = Append(@, sectionStats)]
       IN  IF isComplete(pushed)
           THEN LET out == getFlushedStdOut(pushed, stdOutSink)
                       err == getFlushedStdErr(out.trav, stdErrSink)
                       finished == [err.trav EXCEPT !.finishTime = clock]
                       fresh == setRedirectSinksFromPredecessor(
                                    MovedFrom(finished), finished)
                       completed == Append(m_completedTraversals,
                                           ReleasedSinks(finished))
                   IN  /\ stdOutSink' = out.sink
                       /\ stdErrSink' = err.sink
                       /\ m_completedTraversals' = completed
                       /\ m_currentTraversal' = fresh
                       /\ hookCall' =
                             [hook |-> "sectionTraversalEnded",
                              traversals |-> Traversals(completed, fresh)]
           ELSE /\ m_currentTraversal' = pushed
                /\ hookCall' = NoHook
                /\ UNCHANGED << m_completedTraversals, stdOutSink,
                                stdErrSink >>
    /\ UNCHANGED << m_currentTestRunInfo, m_currentTestGroupInfo,
                    m_currentTestTags, clock >>

\* variant of fatalErrorEncountered: the signal starts a new record
fatalErrorEncounteredClosing(signalName) ==
    /\ m_currentTraversal' =
          [MovedFrom(m_currentTraversal) EXCEPT !.fatalSignalName = signalName]
    /\ hookCall' = NoHook
    /\ UNCHANGED << m_currentTestRunInfo, m_currentTestGroupInfo,
                    m_currentTestTags, m_completedTraversals, stdOutSink,
                    stdErrSink, clock >>

\* IncrementalReporterBase::fatalErrorEncountered
fatalErrorEncountered(signalName) ==
    /\ m_currentTraversal' =
          [m_currentTraversal EXCEPT !.fatalSignalName = signalName]
    /\ hookCall' = NoHook
    /\ UNCHANGED << m_currentTestRunInfo, m_currentTestGroupInfo,
                    m_currentTestTags, m_completedTraversals, stdOutSink,
                    stdErrSink, clock >>

\* the record testCaseEnded writes to: TRUE for the current record, FALSE
\* for the most recently completed one
CaseEndTargetsCurrent ==
    \/ m_completedTraversals = <<>>
    \/ m_currentTraversal.fatalSignalName # ""

\* IncrementalReporterBase::testCaseEnded
testCaseEnded(stdOut, stdErr) ==
    /\ LET target == IF CaseEndTargetsCurrent
                     THEN m_currentTraversal
                     ELSE Last(m_completedTraversals)
           out == getFlushedStdOut(target, stdOutSink)
           outDone == [out.trav EXCEPT !.m_stdOutStream = Insert(@, stdOut)]
           err == getFlushedStdErr(outDone, stdErrSink)
           errDone == [err.trav EXCEPT !.m_stdErrStream = Insert(@, stdErr)]
       IN  /\ stdOutSink' = out.sink
           /\ stdErrSink' = err.sink
           /\ IF CaseEndTargetsCurrent
              THEN /\ m_currentTraversal' = errDone
                   /\ UNCHANGED m_completedTraversals
              ELSE /\ m_completedTraversals' =
                         [m_completedTraversals EXCEPT
                             ![Len(m_completedTraversals)] = errDone]
                   /\ UNCHANGED m_currentTraversal
    /\ hookCall' = NoHook
    /\ UNCHANGED << m_currentTestRunInfo, m_currentTestGroupInfo,
                    m_currentTestTags, clock >>

\* IncrementalReporterBase::testGroupEnded, testRunEnded (empty bodies)
emptyHandler ==
    /\ hookCall' = NoHook
    /\ UNCHANGED << m_currentTestRunInfo, m_currentTestGroupInfo,
                    m_currentTestTags, m_completedTraversals,
                    m_currentTraversal, stdOutSink, stdErrSink, clock >>

(***************************************************************************)
(* catch_reporter_vstest.cpp: names                                         *)
(***************************************************************************)
\* rawName[i] of a std::string, 1-based; the terminating NUL reads as ""
CharAt(rawName, i) == IF i <= Len(rawName) THEN rawName[i] ELSE ""

\* rawName.find( c, i ): the first position at or after i that holds c, or 0
FindFrom(rawName, c, i) ==
    IF \E j \in i..Len(rawName) : rawName[j] = c
    THEN CHOOSE j \in i..Len(rawName) :
            /\ rawName[j] = c
            /\ \A k \in i..(j - 1) : rawName[k] # c
    ELSE 0

\* variant of AfterTag: the space after a tag is never stepped over
AfterTagKeepingSpace(rawName, i, lastChar) == FindFrom(rawName, "]", i) + 1

\* the position at which the walk of getSanitizedTrxName goes on after the
\* tag that opens at position i
AfterTag(rawName, i, lastChar) ==
    LET next == FindFrom(rawName, "]", i) + 1
    IN  IF lastChar = " " /\ CharAt(rawName, next) = " "
        THEN next + 1
        ELSE next

\* getSanitizedTrxName raises "Unclosed [tag] in name"
RECURSIVE UnclosedTagFrom(_, _, _)
UnclosedTagFrom(rawName, i, lastChar) ==
    IF i > Len(rawName) THEN FALSE
    ELSE IF rawName[i] = "["
         THEN \/ FindFrom(rawName, "]", i) = 0
              \/ UnclosedTagFrom(rawName, AfterTag(rawName, i, lastChar),
                                 lastChar)
         ELSE IF rawName[i] = ","
              THEN UnclosedTagFrom(rawName, i + 1, lastChar)
              ELSE UnclosedTagFrom(rawName, i + 1, rawName[i])

\* the characters getSanitizedTrxName writes to its result stream
RECURSIVE SanitizedFrom(_, _, _)
SanitizedFrom(rawName, i, lastChar) ==
    IF i > Len(rawName) THEN <<>>
    ELSE IF rawName[i] = "["
         THEN SanitizedFrom(rawName, AfterTag(rawName, i, lastChar), lastChar)
         ELSE IF rawName[i] = ","
              THEN SanitizedFrom(rawName, i + 1, lastChar)
              ELSE << rawName[i] >> \o SanitizedFrom(rawName, i + 1, rawName[i])

Whitespace == { " ", "\n", "\r", "\t" }

\* at most one whitespace character is taken off each end
trimOnce(str) ==
    LET front == IF str # <<>> /\ Head(str) \in Whitespace
                 THEN Tail(str) ELSE str
    IN  IF front # <<>> /\ Last(front) \in Whitespace
        THEN SubSeq(front, 1, Len(front) - 1)
        ELSE front

\* Catch::trim: without leading and trailing whitespace
RECURSIVE trim(_)
trim(str) ==
    IF str = <<>> THEN <<>>
    ELSE IF Head(str) \in Whitespace THEN trim(Tail(str))
    ELSE IF Last(str) \in Whitespace THEN trim(SubSeq(str, 1, Len(str) - 1))
    ELSE str

\* variant of getSanitizedTrxName: one whitespace character is trimmed
getSanitizedTrxNameTrimmingOnce(rawName) ==
    trimOnce(SanitizedFrom(rawName, 1, ""))

\* getSanitizedTrxName, for a name that does not raise
getSanitizedTrxName(rawName) == trim(SanitizedFrom(rawName, 1, ""))

(***************************************************************************)
(* StreamingReporterUnwindContext, VstestEntry                              *)
(***************************************************************************)
\* value of a field that no constructor initialises
Indeterminate == -1

\* StreamingReporterUnwindContext::StreamingReporterUnwindContext()
NewUnwindContext ==
    [ allSectionInfo |-> <<>>,
      allSectionStats |-> <<>>,
      allTerminatedAssertions |-> <<>>,
      allExpandedAssertionStatements |-> <<>>,
      startTimestamp |-> <<>>,
      endTimestamp |-> <<>>,
      stdOut |-> <<>>,
      stdErr |-> <<>>,
      hasFatalError |-> FALSE,
      fatalAssertionSource |-> <<>>,
      elapsedNanoseconds |-> Indeterminate ]

\* The context left behind by the implicit move constructor: containers and
\* strings are emptied, scalars are copied.
MovedFromContext(c) ==
    [ allSectionInfo |-> <<>>,
      allSectionStats |-> <<>>,
      allTerminatedAssertions |-> <<>>,
      allExpandedAssertionStatements |-> <<>>,
      startTimestamp |-> <<>>,
      endTimestamp |-> <<>>,
      stdOut |-> <<>>,
      stdErr |-> <<>>,
      hasFatalError |-> c.hasFatalError,
      fatalAssertionSource |-> <<>>,
      elapsedNanoseconds |-> c.elapsedNanoseconds ]

\* StreamingReporterUnwindContext::onFatalErrorCondition
onFatalErrorCondition(c, signalName) == [c EXCEPT !.hasFatalError = TRUE]

\* StreamingReporterUnwindContext::addAssertion
UnwindContext_addAssertion(c, assertionStats) ==
    IF c.hasFatalError
    THEN [c EXCEPT !.fatalAssertionSource =
                      << assertionStats.file, ":", assertionStats.line >>]
    ELSE [c EXCEPT
            !.allTerminatedAssertions = Append(@, assertionStats),
            !.allExpandedAssertionStatements =
                Append(@, assertionStats.expanded),
            !.stdOut = InsertAll(@, InfoLines(assertionStats.infoMessages))]

\* StreamingReporterUnwindContext::unwindIsComplete
unwindIsComplete(c) ==
    /\ c.allSectionStats # <<>>
    /\ Len(c.allSectionStats) = Len(c.allSectionInfo)

\* StreamingReporterUnwindContext::clear
UnwindContext_clear(c) ==
    [c EXCEPT !.allSectionInfo = <<>>,
              !.allSectionStats = <<>>,
              !.allTerminatedAssertions = <<>>,
              !.allExpandedAssertionStatements = <<>>]

\* StreamingReporterUnwindContext::hasFailures
UnwindContext_hasFailures(c) ==
    \/ c.hasFatalError
    \/ \E i \in 1..Len(c.allTerminatedAssertions) :
          ~c.allTerminatedAssertions[i].ok

\* VstestEntry::VstestEntry (the random ids of an entry are not modelled)
VstestEntry(name) ==
    [ name |-> getSanitizedTrxName(name),
      tags |-> <<>>,
      unwindContexts |-> <<>> ]

\* variant of VstestEntry::hasFailures: only the last unwind context counts
VstestEntry_lastHasFailures(entry) ==
    /\ entry.unwindContexts # <<>>
    /\ UnwindContext_hasFailures(Last(entry.unwindContexts))

\* VstestEntry::hasFailures
VstestEntry_hasFailures(entry) ==
    \E i \in 1..Len(entry.unwindContexts) :
        UnwindContext_hasFailures(entry.unwindContexts[i])

\* contextCouldBeInEntry
contextCouldBeInEntry(context, entry) ==
    LET firstContextInEntry == entry.unwindContexts[1]
    IN  /\ context.allSectionInfo[1].name =
              firstContextInEntry.allSectionInfo[1].name
        /\ context.allSectionInfo[1].line =
              firstContextInEntry.allSectionInfo[1].line

\* contextCouldBeInLastEntry
contextCouldBeInLastEntry(context, entries) ==
    /\ entries # <<>>
    /\ contextCouldBeInEntry(context, Last(entries))

(***************************************************************************)
(* VstestReporter                                                           *)
(***************************************************************************)
\* currentTimestamp(): the reading of the clock, as text
currentTimestamp == << clock >>

\* m_doIncrementalXmlOutput, as the constructor sets it
m_doIncrementalXmlOutput ==
    m_config.standardOutputRedirect \/ m_config.standardErrorRedirect

\* the outcome attribute of a result
Outcome(failed) == IF failed THEN "Failed" ELSE "Passed"

\* VstestReporter::writeToplevelResult: the outcome of a top-level result
ToplevelOutcome(testEntry) == Outcome(VstestEntry_hasFailures(testEntry))

\* VstestReporter::writeInnerResult: the outcome of an inner result
InnerOutcome(emissionType, unwindContext) ==
    LET isInProgress == /\ emissionType = "Intermediate"
                        /\ ~unwindIsComplete(unwindContext)
    IN  Outcome(UnwindContext_hasFailures(unwindContext) \/ isInProgress)

\* StreamingReporterUnwindContext::constructFullName: the sanitized names
\* of the sections, " / " between them
RECURSIVE constructFullName(_)
constructFullName(sections) ==
    IF sections = <<>> THEN <<>>
    ELSE IF Len(sections) = 1 THEN getSanitizedTrxName(sections[1].name)
    ELSE constructFullName(SubSeq(sections, 1, Len(sections) - 1))
            \o << " / " >> \o getSanitizedTrxName(Last(sections).name)

\* the first line of the error message of an unwind that is not complete
TerminatedMessage ==
    << "Test execution terminated unexpectedly before this test completed. Please see redirected output for more details." >>

\* StreamingReporterUnwindContext::constructErrorMessage: its lines
constructErrorMessage(c) ==
    (IF ~unwindIsComplete(c) THEN << TerminatedMessage >> ELSE <<>>)
        \o [i \in 1..Len(c.allTerminatedAssertions) |->
               << "Failed: ", c.allTerminatedAssertions[i].expanded >>]
        \o (IF c.hasFatalError
            THEN << << "Fatal error at ", c.fatalAssertionSource >> >>
            ELSE <<>>)

\* VstestReporter::writeInnerResult: name, outcome and message of the result
writeInnerResult(emissionType, unwindContext) ==
    LET isInProgress == /\ emissionType = "Intermediate"
                        /\ ~unwindIsComplete(unwindContext)
        fullName == constructFullName(unwindContext.allSectionInfo)
        name == IF fullName = <<>> THEN << "Unknown test" >> ELSE fullName
    IN  [ name |-> IF isInProgress
                   THEN name \o << " (in progress)" >> ELSE name,
          outcome |-> InnerOutcome(emissionType, unwindContext),
          message |-> constructErrorMessage(unwindContext) ]

\* the inner results of the complete unwinds among contexts
RECURSIVE CompleteInnerResults(_, _)
CompleteInnerResults(emissionType, contexts) ==
    IF contexts = <<>> THEN <<>>
    ELSE (IF unwindIsComplete(Head(contexts))
          THEN << writeInnerResult(emissionType, Head(contexts)) >>
          ELSE <<>>)
            \o CompleteInnerResults(emissionType, Tail(contexts))

\* VstestReporter::writeToplevelResult: name and outcome of the result and
\* its inner results; flat is a test written with the details of its single
\* unwind in the top element
writeToplevelResult(emissionType, testEntry, context) ==
    LET flat == /\ Len(testEntry.unwindContexts) = 1
                /\ emissionType = "Final"
    IN  [ name |-> testEntry.name,
          outcome |-> ToplevelOutcome(testEntry),
          flat |-> flat,
          inner |->
              IF flat THEN <<>>
              ELSE CompleteInnerResults(emissionType,
                                        testEntry.unwindContexts)
                      \o (IF /\ emissionType = "Intermediate"
                             /\ contextCouldBeInEntry(context, testEntry)
                          THEN << writeInnerResult(emissionType, context) >>
                          ELSE <<>>) ]

\* VstestReporter::writeResults: the top-level results
Results(emissionType, entries, context) ==
    [i \in 1..Len(entries) |->
        writeToplevelResult(emissionType, entries[i], context)]
    \o
    IF /\ emissionType = "Intermediate"
       /\ ~unwindIsComplete(context)
       /\ ~contextCouldBeInLastEntry(context, entries)
    THEN LET tempEntry ==
                 [VstestEntry(context.allSectionInfo[1].name) EXCEPT
                     !.unwindContexts = << context >>]
         IN  << writeToplevelResult(emissionType, tempEntry, context) >>
    ELSE <<>>

\* variant of writeSummaryElement: the outcome is that of the test entries
\* in every emission
writeSummaryElementOfEntries(emissionType, entries) ==
    Outcome(\E i \in 1..Len(entries) : VstestEntry_hasFailures(entries[i]))

\* VstestReporter::writeSummaryElement: the outcome of the run
writeSummaryElement(emissionType, entries) ==
    Outcome(\/ \E i \in 1..Len(entries) : VstestEntry_hasFailures(entries[i])
            \/ emissionType = "Intermediate")

\* VstestReporter::emitTrx: the document that replaces the output
emitTrx(emissionType, entries, context) ==
    [ emissionType |-> emissionType,
      results |-> Results(emissionType, entries, context),
      outcome |-> writeSummaryElement(emissionType, entries) ]

\* VstestReporter::VstestReporter
InitVstest ==
    /\ m_xml = << >>
    /\ m_emissionType = "Intermediate"
    /\ m_timer = 0
    /\ m_currentTestCaseTags = <<>>
    /\ m_completedTestEntries = <<>>
    /\ m_currentUnwindContext = NewUnwindContext

\* VstestReporter::fatalErrorEncountered
VstestReporter_fatalErrorEncountered(signalName) ==
    /\ m_currentUnwindContext' =
          onFatalErrorCondition(m_currentUnwindContext, signalName)
    /\ UNCHANGED << m_xml, m_emissionType, m_timer, m_currentTestCaseTags,
                    m_completedTestEntries >>

\* VstestReporter::sectionStarting
VstestReporter_sectionStarting(sectionInfo) ==
    LET first == m_currentUnwindContext.allSectionInfo = <<>>
        started == IF first
                   THEN [m_currentUnwindContext EXCEPT
                            !.startTimestamp = currentTimestamp]
                   ELSE m_currentUnwindContext
        pushed == [started EXCEPT !.allSectionInfo = Append(@, sectionInfo)]
    IN  /\ m_timer' = IF first THEN clock ELSE m_timer
        /\ m_currentUnwindContext' = pushed
        /\ m_xml' = IF m_doIncrementalXmlOutput
                    THEN << emitTrx(m_emissionType, m_completedTestEntries,
                                    pushed) >>
                    ELSE m_xml
        /\ UNCHANGED << m_emissionType, m_currentTestCaseTags,
                        m_completedTestEntries >>

\* VstestReporter::assertionEnded
VstestReporter_assertionEnded(assertionStats) ==
    /\ m_currentUnwindContext' =
          IF ~assertionStats.ok
          THEN UnwindContext_addAssertion(m_currentUnwindContext,
                                          assertionStats)
          ELSE m_currentUnwindContext
    /\ UNCHANGED << m_xml, m_emissionType, m_timer, m_currentTestCaseTags,
                    m_completedTestEntries >>

\* variant of flushCurrentUnwindContext: the name is compared with the name
\* of the first entry
flushComparingWithFirstEntry(context) ==
    IF context.allSectionStats = <<>>
    THEN /\ m_currentUnwindContext' = context
         /\ UNCHANGED << m_completedTestEntries, stdOutSink, stdErrSink >>
    ELSE LET captured ==
                 [context EXCEPT
                     !.stdOut = IF m_config.standardOutputRedirect
                                THEN InsertAll(@, stdOutSink) ELSE @,
                     !.stdErr = IF m_config.standardErrorRedirect
                                THEN InsertAll(@, stdErrSink) ELSE @,
                     !.elapsedNanoseconds = clock - m_timer]
             currentToplevelName ==
                 Last(captured.allSectionStats).sectionInfo.name
             raises == UnclosedTagFrom(currentToplevelName, 1, "")
             isUnwindFromCurrentTest ==
                 /\ m_completedTestEntries # <<>>
                 /\ m_completedTestEntries[1].name =
                       getSanitizedTrxName(currentToplevelName)
             newEntry == [VstestEntry(currentToplevelName) EXCEPT
                             !.tags = m_currentTestCaseTags]
             entries == IF isUnwindFromCurrentTest
                        THEN m_completedTestEntries
                        ELSE Append(m_completedTestEntries, newEntry)
             ended == [captured EXCEPT !.endTimestamp = currentTimestamp]
         IN  /\ stdOutSink' = IF m_config.standardOutputRedirect
                              THEN <<>> ELSE stdOutSink
             /\ stdErrSink' = IF m_config.standardErrorRedirect
                              THEN <<>> ELSE stdErrSink
             /\ IF raises
                THEN \* the exception leaves the handler
                     /\ m_currentUnwindContext' = captured
                     /\ UNCHANGED m_completedTestEntries
                ELSE /\ m_completedTestEntries' =
                           [entries EXCEPT
                               ![Len(entries)].unwindContexts =
                                   Append(@, ended)]
                     /\ m_currentUnwindContext' =
                           UnwindContext_clear(MovedFromContext(ended))

\* variant of flushCurrentUnwindContext: a name with an unclosed tag is
\* passed through as it is
flushPassingUnclosedNameThrough(context) ==
    IF context.allSectionStats = <<>>
    THEN /\ m_currentUnwindContext' = context
         /\ UNCHANGED << m_completedTestEntries, stdOutSink, stdErrSink >>
    ELSE LET captured ==
                 [context EXCEPT
                     !.stdOut = IF m_config.standardOutputRedirect
                                THEN InsertAll(@, stdOutSink) ELSE @,
                     !.stdErr = IF m_config.standardErrorRedirect
                                THEN InsertAll(@, stdErrSink) ELSE @,
                     !.elapsedNanoseconds = clock - m_timer]
             currentToplevelName ==
                 Last(captured.allSectionStats).sectionInfo.name
             raises == FALSE
             sanitized ==
                 IF UnclosedTagFrom(currentToplevelName, 1, "")
                 THEN currentToplevelName
                 ELSE getSanitizedTrxName(currentToplevelName)
             isUnwindFromCurrentTest ==
                 /\ m_completedTestEntries # <<>>
                 /\ Last(m_completedTestEntries).name = sanitized
             newEntry == [VstestEntry(<<>>) EXCEPT
                             !.name = sanitized,
                             !.tags = m_currentTestCaseTags]
             entries == IF isUnwindFromCurrentTest
                        THEN m_completedTestEntries
                        ELSE Append(m_completedTestEntries, newEntry)
             ended == [captured EXCEPT !.endTimestamp = currentTimestamp]
         IN  /\ stdOutSink' = IF m_config.standardOutputRedirect
                              THEN <<>> ELSE stdOutSink
             /\ stdErrSink' = IF m_config.standardErrorRedirect
                              THEN <<>> ELSE stdErrSink
             /\ IF raises
                THEN \* the exception leaves the handler
                     /\ m_currentUnwindContext' = captured
                     /\ UNCHANGED m_completedTestEntries
                ELSE /\ m_completedTestEntries' =
                           [entries EXCEPT
                               ![Len(entries)].unwindContexts =
                                   Append(@, ended)]
                     /\ m_currentUnwindContext' =
                           UnwindContext_clear(MovedFromContext(ended))

\* variant of flushCurrentUnwindContext: every unwind opens a test entry
flushOpeningAnEntryEachTime(context) ==
    IF context.allSectionStats = <<>>
    THEN /\ m_currentUnwindContext' = context
         /\ UNCHANGED << m_completedTestEntries, stdOutSink, stdErrSink >>
    ELSE LET captured ==
                 [context EXCEPT
                     !.stdOut = IF m_config.standardOutputRedirect
                                THEN InsertAll(@, stdOutSink) ELSE @,
                     !.stdErr = IF m_config.standardErrorRedirect
                                THEN InsertAll(@, stdErrSink) ELSE @,
                     !.elapsedNanoseconds = clock - m_timer]
             currentToplevelName ==
                 Last(captured.allSectionStats).sectionInfo.name
             raises == UnclosedTagFrom(currentToplevelName, 1, "")
             newEntry == [VstestEntry(currentToplevelName) EXCEPT
                             !.tags = m_currentTestCaseTags]
             entries == Append(m_completedTestEntries, newEntry)
             ended == [captured EXCEPT !.endTimestamp = currentTimestamp]
         IN  /\ stdOutSink' = IF m_config.standardOutputRedirect
                              THEN <<>> ELSE stdOutSink
             /\ stdErrSink' = IF m_config.standardErrorRedirect
                              THEN <<>> ELSE stdErrSink
             /\ IF raises
                THEN \* the exception leaves the handler
                     /\ m_currentUnwindContext' = captured
                     /\ UNCHANGED m_completedTestEntries
                ELSE /\ m_completedTestEntries' =
                           [entries EXCEPT
                               ![Len(entries)].unwindContexts =
                                   Append(@, ended)]
                     /\ m_currentUnwindContext' =
                           UnwindContext_clear(MovedFromContext(ended))

\* variant of flushCurrentUnwindContext: the unwind joins the first test
\* entry that has the name of its root
flushMergingBack(context) ==
    IF context.allSectionStats = <<>>
    THEN /\ m_currentUnwindContext' = context
         /\ UNCHANGED << m_completedTestEntries, stdOutSink, stdErrSink >>
    ELSE LET captured ==
                 [context EXCEPT
                     !.stdOut = IF m_config.standardOutputRedirect
                                THEN InsertAll(@, stdOutSink) ELSE @,
                     !.stdErr = IF m_config.standardErrorRedirect
                                THEN InsertAll(@, stdErrSink) ELSE @,
                     !.elapsedNanoseconds = clock - m_timer]
             currentToplevelName ==
                 Last(captured.allSectionStats).sectionInfo.name
             raises == UnclosedTagFrom(currentToplevelName, 1, "")
             sameName ==
                 { k \in 1..Len(m_completedTestEntries) :
                       m_completedTestEntries[k].name =
                           getSanitizedTrxName(currentToplevelName) }
             isUnwindFromCurrentTest == sameName # {}
             newEntry == [VstestEntry(currentToplevelName) EXCEPT
                             !.tags = m_currentTestCaseTags]
             entries == IF isUnwindFromCurrentTest
                        THEN m_completedTestEntries
                        ELSE Append(m_completedTestEntries, newEntry)
             ended == [captured EXCEPT !.endTimestamp = currentTimestamp]
         IN  /\ stdOutSink' = IF m_config.standardOutputRedirect
                              THEN <<>> ELSE stdOutSink
             /\ stdErrSink' = IF m_config.standardErrorRedirect
                              THEN <<>> ELSE stdErrSink
             /\ IF raises
                THEN \* the exception leaves the handler
                     /\ m_currentUnwindContext' = captured
                     /\ UNCHANGED m_completedTestEntries
                ELSE /\ m_completedTestEntries' =
                           [entries EXCEPT
                               ![IF isUnwindFromCurrentTest
                                 THEN CHOOSE k \in sameName :
                                          \A l \in sameName : k <= l
                                 ELSE Len(entries)].unwindContexts =
                                   Append(@, ended)]
                     /\ m_currentUnwindContext' =
                           UnwindContext_clear(MovedFromContext(ended))

\* VstestReporter::flushCurrentUnwindContext, for the context as sectionEnded
\* has it after its push_back
flushCurrentUnwindContext(context) ==
    IF context.allSectionStats = <<>>
    THEN /\ m_currentUnwindContext' = context
         /\ UNCHANGED << m_completedTestEntries, stdOutSink, stdErrSink >>
    ELSE LET captured ==
                 [context EXCEPT
                     !.stdOut = IF m_config.standardOutputRedirect
                                THEN InsertAll(@, stdOutSink) ELSE @,
                     !.stdErr = IF m_config.standardErrorRedirect
                                THEN InsertAll(@, stdErrSink) ELSE @,
                     !.elapsedNanoseconds = clock - m_timer]
             currentToplevelName ==
                 Last(captured.allSectionStats).sectionInfo.name
             raises == UnclosedTagFrom(currentToplevelName, 1, "")
             isUnwindFromCurrentTest ==
                 /\ m_completedTestEntries # <<>>
                 /\ Last(m_completedTestEntries).name =
                       getSanitizedTrxName(currentToplevelName)
             newEntry == [VstestEntry(currentToplevelName) EXCEPT
                             !.tags = m_currentTestCaseTags]
             entries == IF isUnwindFromCurrentTest
                        THEN m_completedTestEntries
                        ELSE Append(m_completedTestEntries, newEntry)
             ended == [captured EXCEPT !.endTimestamp = currentTimestamp]
         IN  /\ stdOutSink' = IF m_config.standardOutputRedirect
                              THEN <<>> ELSE stdOutSink
             /\ stdErrSink' = IF m_config.standardErrorRedirect
                              THEN <<>> ELSE stdErrSink
             /\ IF raises
                THEN \* the exception leaves the handler
                     /\ m_currentUnwindContext' = captured
                     /\ UNCHANGED m_completedTestEntries
                ELSE /\ m_completedTestEntries' =
                           [entries EXCEPT
                               ![Len(entries)].unwindContexts =
                                   Append(@, ended)]
                     /\ m_currentUnwindContext' =
                           UnwindContext_clear(MovedFromContext(ended))

\* variant of VstestReporter::sectionEnded: the stats are put in front
VstestReporter_sectionEndedPrepending(sectionStats) ==
    LET pushed == [m_currentUnwindContext EXCEPT
                      !.allSectionStats = << sectionStats >> \o @]
    IN  /\ IF unwindIsComplete(pushed)
           THEN flushCurrentUnwindContext(pushed)
           ELSE /\ m_currentUnwindContext' = pushed
                /\ UNCHANGED << m_completedTestEntries, stdOutSink,
                                stdErrSink >>
        /\ UNCHANGED << m_xml, m_emissionType, m_timer,
                        m_currentTestCaseTags >>

\* VstestReporter::sectionEnded
VstestReporter_sectionEnded(sectionStats) ==
    LET pushed == [m_currentUnwindContext EXCEPT
                      !.allSectionStats = Append(@, sectionStats)]
    IN  /\ IF unwindIsComplete(pushed)
           THEN flushCurrentUnwindContext(pushed)
           ELSE /\ m_currentUnwindContext' = pushed
                /\ UNCHANGED << m_completedTestEntries, stdOutSink,
                                stdErrSink >>
        /\ UNCHANGED << m_xml, m_emissionType, m_timer,
                        m_currentTestCaseTags >>

\* VstestReporter::testRunEnded
VstestReporter_testRunEnded ==
    /\ m_emissionType' = "Final"
    /\ m_xml' = << emitTrx("Final", m_completedTestEntries,
                           m_currentUnwindContext) >>
    /\ UNCHANGED << m_timer, m_currentTestCaseTags, m_completedTestEntries,
                    m_currentUnwindContext >>

(***************************************************************************)
(* The event feed: the test runner delivers one event at a time.  It keeps *)
(* the stack of the sections it has open; the stream is well formed as     *)
(* long as every sectionEnd closes the innermost open section.             *)
(***************************************************************************)
\* the runner delivers the completion record of its innermost open section;
\* with no section open, a sectionEnd has no matching sectionStart and may
\* carry any completion record
Deliverable(sectionStats) ==
    activeSections # <<>> =>
        sectionStats = SectionStatsOf(Last(activeSections))

\* the value returned by assertionEnded
assertionEndedResult == TRUE

\* the feed after an event that opens or closes no section
Delivered(event) ==
    /\ lastEvent' = event
    /\ returned' = IF event = "assertionEnd"
                   THEN << assertionEndedResult >>
                   ELSE <<>>
    /\ UNCHANGED << m_config, activeSections, wellFormed, signalled,
                    startedSections, closedPaths, sinkVars >>

\* the feed after a fatalSignal
DeliveredFatalSignal ==
    /\ lastEvent' = "fatalSignal"
    /\ returned' = <<>>
    /\ signalled' = TRUE
    /\ UNCHANGED << m_config, activeSections, wellFormed, startedSections,
                    closedPaths, sinkVars >>

\* the feed after a sectionStart
DeliveredSectionStart(sectionInfo) ==
    /\ lastEvent' = "sectionStart"
    /\ returned' = <<>>
    /\ activeSections' = Append(activeSections, sectionInfo)
    /\ startedSections' = IF wellFormed
                          THEN Append(startedSections, sectionInfo)
                          ELSE <<>>
    /\ UNCHANGED << m_config, wellFormed, signalled, closedPaths, sinkVars >>

\* the feed after a sectionEnd
DeliveredSectionEnd ==
    /\ lastEvent' = "sectionEnd"
    /\ returned' = <<>>
    /\ IF activeSections # <<>>
       THEN /\ activeSections' =
                  SubSeq(activeSections, 1, Len(activeSections) - 1)
            /\ wellFormed' = wellFormed
       ELSE /\ activeSections' = <<>>
            /\ wellFormed' = FALSE
    /\ IF ~wellFormed'
       THEN startedSections' = <<>> /\ closedPaths' = <<>>
       ELSE IF activeSections' = <<>>
       THEN /\ startedSections' = <<>>
            /\ closedPaths' = Append(closedPaths, startedSections)
       ELSE UNCHANGED << startedSections, closedPaths >>
    /\ UNCHANGED sinkVars
    /\ signalled' = IF Len(m_completedTraversals') > Len(m_completedTraversals)
                    THEN FALSE
                    ELSE signalled
    /\ UNCHANGED m_config

(***************************************************************************)
(* Events delivered to an incremental reporter.                             *)
(***************************************************************************)
RunStart(testRunInfo) ==
    /\ testRunStarting(testRunInfo)
    /\ Delivered("runStart")
    /\ UNCHANGED vstestVars

GroupStart(testGroupInfo) ==
    /\ testGroupStarting(testGroupInfo)
    /\ Delivered("groupStart")
    /\ UNCHANGED vstestVars

CaseStart(tags) ==
    /\ testCaseStarting(tags)
    /\ Delivered("caseStart")
    /\ UNCHANGED vstestVars

SectionStart(sectionInfo) ==
    /\ sectionStarting(sectionInfo)
    /\ DeliveredSectionStart(sectionInfo)
    /\ UNCHANGED vstestVars
    /\ Bounded'

AssertionEnd(assertionStats) ==
    /\ assertionEnded(assertionStats)
    /\ Delivered("assertionEnd")
    /\ UNCHANGED vstestVars
    /\ Bounded'

SectionEnd(sectionStats) ==
    /\ Deliverable(sectionStats)
    /\ sectionEnded(sectionStats)
    /\ DeliveredSectionEnd
    /\ UNCHANGED vstestVars
    /\ Bounded'

FatalSignal(signalName) ==
    /\ fatalErrorEncountered(signalName)
    /\ DeliveredFatalSignal
    /\ UNCHANGED vstestVars
    /\ Bounded'

CaseEnd(stdOut, stdErr) ==
    /\ testCaseEnded(stdOut, stdErr)
    /\ Delivered("caseEnd")
    /\ UNCHANGED vstestVars
    /\ Bounded'

GroupEnd == emptyHandler /\ Delivered("groupEnd") /\ UNCHANGED vstestVars

RunEnd == emptyHandler /\ Delivered("runEnd") /\ UNCHANGED vstestVars

\* time passes on the system clock
Tick ==
    /\ clock < MaxClock
    /\ clock' = clock + 1
    /\ hookCall' = NoHook
    /\ UNCHANGED << m_currentTestRunInfo, m_currentTestGroupInfo,
                    m_currentTestTags, m_completedTraversals,
                    m_currentTraversal, stdOutSink, stdErrSink >>
    /\ Delivered("tick")
    /\ UNCHANGED vstestVars

\* the test under execution writes to a channel that a sink redirects
WriteStdOut(text) ==
    /\ m_config.standardOutputRedirect
    /\ stdOutSink' = Append(stdOutSink, text)
    /\ hookCall' = NoHook
    /\ UNCHANGED << m_currentTestRunInfo, m_currentTestGroupInfo,
                    m_currentTestTags, m_completedTraversals,
                    m_currentTraversal, stdErrSink, clock >>
    /\ Delivered("write")
    /\ UNCHANGED vstestVars
    /\ Bounded'

WriteStdErr(text) ==
    /\ m_config.standardErrorRedirect
    /\ stdErrSink' = Append(stdErrSink, text)
    /\ hookCall' = NoHook
    /\ UNCHANGED << m_currentTestRunInfo, m_currentTestGroupInfo,
                    m_currentTestTags, m_completedTraversals,
                    m_currentTraversal, stdOutSink, clock >>
    /\ Delivered("write")
    /\ UNCHANGED vstestVars
    /\ Bounded'

(***************************************************************************)
(* Events delivered to an incremental reporter and a vstest reporter that  *)
(* are registered together: each event reaches both.                       *)
(***************************************************************************)
BothSectionStart(sectionInfo) ==
    /\ sectionStarting(sectionInfo)
    /\ VstestReporter_sectionStarting(sectionInfo)
    /\ DeliveredSectionStart(sectionInfo)
    /\ Bounded'

BothAssertionEnd(assertionStats) ==
    /\ assertionEnded(assertionStats)
    /\ VstestReporter_assertionEnded(assertionStats)
    /\ Delivered("assertionEnd")
    /\ Bounded'

BothSectionEnd(sectionStats) ==
    /\ Deliverable(sectionStats)
    /\ sectionEnded(sectionStats)
    /\ VstestReporter_sectionEnded(sectionStats)
    /\ DeliveredSectionEnd
    /\ Bounded'

BothFatalSignal(signalName) ==
    /\ fatalErrorEncountered(signalName)
    /\ VstestReporter_fatalErrorEncountered(signalName)
    /\ DeliveredFatalSignal
    /\ Bounded'

(***************************************************************************)
(* TempFile and OutputRedirectSink.  A byte is a one-character string; NUL *)
(* stands for the byte of value zero.  Positions count bytes from zero.    *)
(***************************************************************************)
NUL == "NUL"

\* sizeof(buffer) in TempFile::getContents
BufferSize == 100

\* what the tests write to the redirected channel in one call
Foo == << "f", "o", "o" >>

Bar == << "b", "a", "r" >>

Binary == << "a", NUL, "b", "\n" >>

WrittenChunks == { Foo, Bar, Binary }

\* the least of a non-empty set of numbers
Least(numbers) == CHOOSE n \in numbers : \A m \in numbers : n <= m

\* std::fgets( buffer, sizeof(buffer), m_file ) with the file position before
\* byte i: the index of the last byte it stores (it stops after a newline,
\* after sizeof(buffer) - 1 bytes, or at the end of the file)
fgetsEnd(file, i) ==
    LET limit == IF Len(file) < i + BufferSize - 2
                 THEN Len(file) ELSE i + BufferSize - 2
        newlines == { j \in i..limit : file[j] = "\n" }
    IN  IF newlines = {} THEN limit ELSE Least(newlines)

\* sstr << buffer: the bytes of the buffer in front of its first NUL
cString(buffer) ==
    LET nuls == { j \in 1..Len(buffer) : buffer[j] = NUL }
    IN  IF nuls = {} THEN buffer ELSE SubSeq(buffer, 1, Least(nuls) - 1)

\* the loop of TempFile::getContents from byte i on
RECURSIVE fgetsLoop(_, _)
fgetsLoop(file, i) ==
    IF i > Len(file) THEN <<>>
    ELSE cString(SubSeq(file, i, fgetsEnd(file, i)))
            \o fgetsLoop(file, fgetsEnd(file, i) + 1)

\* TempFile::getContents( startPosition )
TempFile_getContents(file, startPosition) == fgetsLoop(file, startPosition + 1)

\* the file offset after TempFile::getContents: std::fseek puts it at
\* startPosition and the reads move it up to the end of the file
OffsetAfterGetContents(file, startPosition) ==
    IF startPosition > Len(file) THEN startPosition ELSE Len(file)

\* the file after a write of the channel at the shared file offset: a gap
\* between the end of the file and the offset reads as NUL bytes
WrittenAt(file, offset, chunk) ==
    LET size == IF Len(file) > offset + Len(chunk)
                THEN Len(file) ELSE offset + Len(chunk)
    IN  [i \in 1..size |->
            IF i > offset /\ i <= offset + Len(chunk) THEN chunk[i - offset]
            ELSE IF i <= Len(file) THEN file[i]
            ELSE NUL]

\* what the descriptor of the channel is bound to before any sink is
\* constructed; the backing stores are numbered from one
OriginalDestination == 0

\* OutputRedirectSink::OutputRedirectSink
InitSink ==
    /\ m_tempFile = <<>>
    /\ fileOffset = 0
    /\ m_lastGetPosition = 0
    /\ sinkCall = [op |-> "constructed", result |-> <<>>]
    /\ written = <<>>
    /\ unread = <<>>
    /\ sinceReset = <<>>
    /\ readsSinceReset = 0
    /\ wasReset = FALSE
    /\ channel = 1
    /\ liveSinks =
          << [copy |-> OriginalDestination, store |-> 1, path |-> TRUE,
              file |-> 1, inside |-> FALSE] >>
    /\ storeCount = 1
    /\ original = <<>>
    /\ flushStep = "idle"
    /\ flushedText = <<>>
    /\ durationCall = [op |-> "none"]

\* a read call was made: read calls after the second since a reset are not
\* told apart
ReadCounted == IF readsSinceReset < 2 THEN readsSinceReset + 1 ELSE 2

\* OutputRedirectSink::getContentsFromPosition
getContentsFromPosition(op, position) ==
    LET result == TempFile_getContents(m_tempFile, position)
    IN  /\ m_lastGetPosition' = position + Len(result)
        /\ fileOffset' = OffsetAfterGetContents(m_tempFile, position)
        /\ sinkCall' = [op |-> op, result |-> result]
        /\ unread' = <<>>
        /\ readsSinceReset' = ReadCounted
        /\ UNCHANGED << m_tempFile, written, sinceReset, wasReset >>

\* OutputRedirectSink::getAllContents
getAllContents == getContentsFromPosition("getAllContents", 0)

\* OutputRedirectSink::getLatestContents
getLatestContents ==
    getContentsFromPosition("getLatestContents", m_lastGetPosition)

\* OutputRedirectSink::reset: TempFile::reopen gives an empty file, the
\* channel is bound to it, m_lastGetPosition is not assigned
OutputRedirectSink_reset ==
    /\ m_tempFile' = <<>>
    /\ fileOffset' = 0
    /\ sinkCall' = [op |-> "reset", result |-> <<>>]
    /\ sinceReset' = <<>>
    /\ readsSinceReset' = 0
    /\ wasReset' = TRUE
    /\ UNCHANGED << m_lastGetPosition, written, unread >>

\* the test under execution writes a chunk to the redirected channel
ChannelWrite(chunk) ==
    /\ m_tempFile' = WrittenAt(m_tempFile, fileOffset, chunk)
    /\ fileOffset' = fileOffset + Len(chunk)
    /\ sinkCall' = [op |-> "write", result |-> <<>>]
    /\ written' = written \o chunk
    /\ unread' = unread \o chunk
    /\ sinceReset' = sinceReset \o chunk
    /\ UNCHANGED << m_lastGetPosition, readsSinceReset, wasReset >>

\* the variables of the reporters and of the event feed, and what else no
\* operation of a sink changes
reporterVars == << m_config, incVars, vstestVars, feedVars, durationCall >>

\* how many writes the channel has taken: each chunk holds exactly one of the
\* bytes f, r and newline
WriteCount == Len(SelectSeq(written, LAMBDA b : b \in {"f", "r", "\n"}))

SinkWrite(chunk) ==
    /\ WriteCount < MaxWrites
    /\ ChannelWrite(chunk)
    /\ UNCHANGED << reporterVars, channelVars >>

SinkReadAll == getAllContents /\ UNCHANGED << reporterVars, channelVars >>

SinkReadLatest ==
    getLatestContents /\ UNCHANGED << reporterVars, channelVars >>

\* a reset by the thread that writes; the number of the store is not tracked
SinkReset ==
    OutputRedirectSink_reset /\ UNCHANGED << reporterVars, channelVars >>

(***************************************************************************)
(* A flush of the sink, m_stdOutStream << sink->getContents() followed by  *)
(* sink->reset(), by the controlling thread, one system call at a time,    *)
(* while another thread writes to the redirected channel.                  *)
(***************************************************************************)
\* the read of the flush
FlushRead ==
    /\ flushStep = "idle"
    /\ getAllContents
    /\ flushedText' = flushedText \o sinkCall'.result
    /\ flushStep' = "read"
    /\ UNCHANGED << channel, liveSinks, storeCount, original, reporterVars >>

\* reset(): dup2( m_originalSourceCopyDescriptor, m_originalSourceDescriptor )
ResetRestore ==
    /\ flushStep = "read"
    /\ channel' = liveSinks[1].copy
    /\ flushStep' = "restored"
    /\ UNCHANGED << m_tempFile, fileOffset, m_lastGetPosition, sinkCall,
                    written, unread, sinceReset, readsSinceReset, wasReset,
                    liveSinks, storeCount, original, flushedText, reporterVars >>

\* reset(): m_tempFile.reopen()
ResetReopen ==
    /\ flushStep = "restored"
    /\ OutputRedirectSink_reset
    /\ flushStep' = "reopened"
    /\ UNCHANGED << channel, liveSinks, storeCount, original, flushedText,
                    reporterVars >>

\* reset(): dup2( fileno( m_tempFile.getFile() ), m_originalSourceDescriptor )
ResetBind ==
    /\ flushStep = "reopened"
    /\ channel' = liveSinks[1].store
    /\ flushStep' = "idle"
    /\ UNCHANGED << m_tempFile, fileOffset, m_lastGetPosition, sinkCall,
                    written, unread, sinceReset, readsSinceReset, wasReset,
                    liveSinks, storeCount, original, flushedText, reporterVars >>

\* another thread writes a chunk to the channel: it goes where the
\* descriptor is bound
OtherThreadWrite(chunk) ==
    /\ WriteCount < MaxWrites
    /\ IF channel = liveSinks[1].store
       THEN /\ ChannelWrite(chunk)
            /\ UNCHANGED original
       ELSE /\ original' = original \o chunk
            /\ written' = written \o chunk
            /\ UNCHANGED << m_tempFile, fileOffset, m_lastGetPosition,
                            sinkCall, unread, sinceReset, readsSinceReset,
                            wasReset >>
    /\ UNCHANGED << channel, liveSinks, storeCount, flushStep, flushedText,
                    reporterVars >>

(***************************************************************************)
(* Construction, reset and destruction of sinks on one channel, with       *)
(* backing stores that may fail to open.  A store with a path is the file  *)
(* of that path and keeps its number when it is reopened; a store without  *)
(* a path is a new std::tmpfile() at every reopen.                         *)
(***************************************************************************)
\* m_file == nullptr: the sink has no open store
NoStore == -1

\* the process was terminated inside the last operation
Crashed == "outcome" \in DOMAIN sinkCall /\ sinkCall.outcome = "crashed"

\* what a call with undefined behaviour (fileno or fclose of a null FILE*)
\* may do: terminate the process, or fail and return
UndefinedOutcomes == { "crashed", "returned" }

\* the outcomes of TempFile::reopen followed by the dup2 on the new file:
\* the open succeeds; or it fails and, in a build with _MSC_VER, reopen
\* throws; or it fails and m_file stays null with no error, and fileno of
\* it is undefined
OpenOutcomes(opened, msvc) ==
    IF opened THEN { "returned" }
    ELSE IF msvc THEN { "thrown" }
    ELSE UndefinedOutcomes

\* the number of the store a sink has open after a reopen that succeeded:
\* the file its path names, or a new temporary file
ReopenedStore(sink) == IF sink.path THEN sink.file ELSE storeCount + 1

\* the channel is bound to the store of the last sink constructed on it
BoundToLastSink == liveSinks # <<>> /\ channel = Last(liveSinks).store

\* OutputRedirectSink::OutputRedirectSink; a sink is noted as inside when
\* the channel it took was bound to the store of the sink before it
ConstructSink(path, opened, msvc) ==
    /\ ~Crashed
    /\ Len(liveSinks) < MaxSinks
    /\ storeCount < MaxStores
    /\ \E outcome \in OpenOutcomes(opened, msvc) :
          /\ sinkCall' = [op |-> "construct", result |-> <<>>,
                          sink |-> Len(liveSinks) + 1, opened |-> opened,
                          outcome |-> outcome]
          /\ IF opened
             THEN /\ liveSinks' = Append(liveSinks,
                        [copy |-> channel, store |-> storeCount + 1,
                         path |-> path,
                         file |-> IF path THEN storeCount + 1 ELSE NoStore,
                         inside |-> BoundToLastSink])
                  /\ channel' = storeCount + 1
                  /\ storeCount' = storeCount + 1
             ELSE IF outcome = "returned"
             THEN \* dup2 of an invalid descriptor fails
                  /\ liveSinks' = Append(liveSinks,
                        [copy |-> channel, store |-> NoStore, path |-> path,
                         file |-> IF path THEN storeCount + 1 ELSE NoStore,
                         inside |-> BoundToLastSink])
                  /\ storeCount' = IF path THEN storeCount + 1 ELSE storeCount
                  /\ UNCHANGED channel
             ELSE UNCHANGED << channel, liveSinks, storeCount >>
    /\ UNCHANGED << m_tempFile, fileOffset, m_lastGetPosition, written,
                    unread, sinceReset, readsSinceReset, wasReset, original,
                    flushStep, flushedText, reporterVars >>

\* OutputRedirectSink::reset of the i-th sink alive
ResetSink(i, opened, msvc) ==
    /\ ~Crashed
    /\ i \in 1..Len(liveSinks)
    /\ storeCount < MaxStores
    /\ \E outcome \in OpenOutcomes(opened, msvc) :
          /\ sinkCall' = [op |-> "reset", result |-> <<>>, sink |-> i,
                          opened |-> opened, outcome |-> outcome]
          /\ IF opened
             THEN /\ liveSinks' = [liveSinks EXCEPT
                                      ![i].store = ReopenedStore(liveSinks[i])]
                  /\ channel' = ReopenedStore(liveSinks[i])
                  /\ storeCount' =
                        IF ReopenedStore(liveSinks[i]) = liveSinks[i].store
                        THEN storeCount ELSE storeCount + 1
             ELSE \* the first dup2 was made, the old store is closed
                  /\ liveSinks' = [liveSinks EXCEPT ![i].store = NoStore]
                  /\ channel' = liveSinks[i].copy
                  /\ UNCHANGED storeCount
    /\ UNCHANGED << m_tempFile, fileOffset, m_lastGetPosition, written,
                    unread, sinceReset, readsSinceReset, wasReset, original,
                    flushStep, flushedText, reporterVars >>

\* OutputRedirectSink::~OutputRedirectSink of the i-th sink alive, followed
\* by TempFile::~TempFile: fclose of a null m_file is undefined
DestroySink(i) ==
    /\ ~Crashed
    /\ i \in 1..Len(liveSinks)
    /\ \E outcome \in IF liveSinks[i].store = NoStore
                      THEN UndefinedOutcomes ELSE { "returned" } :
          sinkCall' = [op |-> "destroy", result |-> <<>>, sink |-> i,
                       opened |-> TRUE, outcome |-> outcome,
                       copy |-> liveSinks[i].copy,
                       store |-> liveSinks[i].store,
                       inside |-> liveSinks[i].inside]
    /\ channel' = liveSinks[i].copy
    /\ liveSinks' = [k \in 1..Len(liveSinks) - 1 |->
                        IF k < i THEN liveSinks[k] ELSE liveSinks[k + 1]]
    /\ UNCHANGED << m_tempFile, fileOffset, m_lastGetPosition, written,
                    unread, sinceReset, readsSinceReset, wasReset,
                    storeCount, original, flushStep, flushedText,
                    reporterVars >>

(***************************************************************************)
(* Events delivered to a vstest reporter by a runner that opens a root     *)
(* section, at most one section inside it, and closes what it opened.      *)
(***************************************************************************)
\* the variables of the incremental reporter that a vstest reporter leaves
\* alone
incOwnVars == << m_currentTestRunInfo, m_currentTestGroupInfo,
                 m_currentTestTags, m_completedTraversals,
                 m_currentTraversal, hookCall >>

\* the unwind contexts the vstest reporter holds
UnwindCount ==
    LET done == m_completedTestEntries
        upTo[n \in 0..Len(done)] ==
            IF n = 0 THEN 0 ELSE Len(done[n].unwindContexts) + upTo[n - 1]
    IN  upTo[Len(done)]
           + (IF m_currentUnwindContext.allSectionInfo # <<>> THEN 1 ELSE 0)

\* the assertions the unwind contexts of the vstest reporter hold
UnwindAssertionCount ==
    LET held(entry) ==
            LET upTo[n \in 0..Len(entry.unwindContexts)] ==
                    IF n = 0 THEN 0
                    ELSE Len(entry.unwindContexts[n].allTerminatedAssertions)
                            + upTo[n - 1]
            IN  upTo[Len(entry.unwindContexts)]
        done == m_completedTestEntries
        upTo[n \in 0..Len(done)] ==
            IF n = 0 THEN 0 ELSE held(done[n]) + upTo[n - 1]
    IN  upTo[Len(done)] + Len(m_currentUnwindContext.allTerminatedAssertions)

VstestRootStart(sectionInfo) ==
    /\ activeSections = <<>>
    /\ VstestReporter_sectionStarting(sectionInfo)
    /\ DeliveredSectionStart(sectionInfo)
    /\ UNCHANGED << incOwnVars, stdOutSink, stdErrSink, clock >>
    /\ UnwindCount' <= MaxUnwinds

VstestLeafStart(sectionInfo) ==
    /\ Len(activeSections) = 1
    /\ m_currentUnwindContext.allSectionStats = <<>>
    /\ VstestReporter_sectionStarting(sectionInfo)
    /\ DeliveredSectionStart(sectionInfo)
    /\ UNCHANGED << incOwnVars, stdOutSink, stdErrSink, clock >>

VstestSectionEnd ==
    /\ activeSections # <<>>
    /\ VstestReporter_sectionEnded(SectionStatsOf(Last(activeSections)))
    /\ UNCHANGED << incOwnVars, clock >>
    /\ DeliveredSectionEnd

VstestRunEnd ==
    /\ VstestReporter_testRunEnded
    /\ Delivered("runEnd")
    /\ UNCHANGED << incOwnVars, stdOutSink, stdErrSink, clock >>

\* the runner opens a section of the test cases inside the sections that
\* enclose it
VstestTreeStart(sectionInfo) ==
    /\ activeSections = EnclosingSections(sectionInfo)
    /\ m_currentUnwindContext.allSectionStats = <<>>
    /\ VstestReporter_sectionStarting(sectionInfo)
    /\ DeliveredSectionStart(sectionInfo)
    /\ UNCHANGED << incOwnVars, stdOutSink, stdErrSink, clock >>
    /\ UnwindCount' <= MaxUnwinds

VstestAssertionEnd(assertionStats) ==
    /\ activeSections # <<>>
    /\ VstestReporter_assertionEnded(assertionStats)
    /\ Delivered("assertionEnd")
    /\ UNCHANGED << incOwnVars, stdOutSink, stdErrSink, clock >>
    /\ UnwindAssertionCount' <= MaxAssertions

VstestFatalSignal(signalName) ==
    /\ activeSections # <<>>
    /\ VstestReporter_fatalErrorEncountered(signalName)
    /\ DeliveredFatalSignal
    /\ UNCHANGED << incOwnVars, stdOutSink, stdErrSink, clock >>

(***************************************************************************)
(* Spec: an incremental reporter without per-traversal redirection, fed    *)
(* section and fatal-signal events in any order while time passes.         *)
(***************************************************************************)
PlainConfig ==
    [standardOutputRedirect |-> FALSE, standardErrorRedirect |-> FALSE]

Init == InitReporter(PlainConfig) /\ InitVstest /\ InitFeed /\ InitSink

Next ==
    \/ SectionStart(SectionA)
    \/ SectionEnd(SectionStatsOf(SectionA))
    \/ \E n \in SignalNames : FatalSignal(n)
    \/ Tick

Spec == Init /\ [][Next]_vars

(***************************************************************************)
(* SpecFrame: an incremental reporter fed the events of test cases that    *)
(* fail, crash and produce output.                                         *)
(***************************************************************************)
NextFrame ==
    \/ SectionStart(SectionA)
    \/ AssertionEnd(FailingAssertionWithInfo)
    \/ FatalSignal("SIGSEGV")
    \/ SectionEnd(SectionStatsOf(SectionA))
    \/ CaseEnd("c", "")
    \/ RunEnd

SpecFrame == Init /\ [][NextFrame]_vars

(***************************************************************************)
(* SpecAssert: an incremental reporter and a vstest reporter registered    *)
(* together, fed section, assertion and fatal-signal events in any order.  *)
(***************************************************************************)
NextAssert ==
    \/ BothSectionStart(SectionA)
    \/ BothAssertionEnd(PassingAssertion)
    \/ BothAssertionEnd(FailingAssertionWithInfo)
    \/ \E n \in SignalNames : BothFatalSignal(n)
    \/ BothSectionEnd(SectionStatsOf(SectionA))

SpecAssert == Init /\ [][NextAssert]_vars

(***************************************************************************)
(* SpecContext: an incremental reporter fed the starts of runs, groups and *)
(* test cases between the sections of its traversals, while time passes.   *)
(***************************************************************************)
NextContext ==
    \/ RunStart("run1")
    \/ GroupStart([name |-> "g1", groupIndex |-> 1])
    \/ CaseStart(<<"t">>)
    \/ SectionStart(SectionA)
    \/ SectionEnd(SectionStatsOf(SectionA))
    \/ Tick

SpecContext == Init /\ [][NextContext]_vars

(***************************************************************************)
(* SpecRedirect: an incremental reporter configured with a redirect sink   *)
(* for each output channel, while the tests write to both channels.        *)
(***************************************************************************)
RedirectConfig ==
    [standardOutputRedirect |-> TRUE, standardErrorRedirect |-> TRUE]

InitRedirect ==
    InitReporter(RedirectConfig) /\ InitVstest /\ InitFeed /\ InitSink

NextRedirect ==
    \/ SectionStart(SectionA)
    \/ \E text \in WrittenTexts : WriteStdOut(text)
    \/ \E text \in WrittenTexts : WriteStdErr(text)
    \/ AssertionEnd(FailingAssertionWithInfo)
    \/ SectionEnd(SectionStatsOf(SectionA))
    \/ CaseEnd("c", "")

SpecRedirect == InitRedirect /\ [][NextRedirect]_vars

(***************************************************************************)
(* SpecPromote: an incremental reporter with redirect sinks, fed tests     *)
(* that write, fail and crash while time passes.                           *)
(***************************************************************************)
NextPromote ==
    \/ SectionStart(SectionA)
    \/ \E text \in WrittenTexts : WriteStdOut(text)
    \/ \E text \in WrittenTexts : WriteStdErr(text)
    \/ AssertionEnd(FailingAssertionWithInfo)
    \/ FatalSignal("SIGSEGV")
    \/ SectionEnd(SectionStatsOf(SectionA))
    \/ Tick

SpecPromote == InitRedirect /\ [][NextPromote]_vars

(***************************************************************************)
(* SpecPath: an incremental reporter fed the starts and ends of two        *)
(* sections that nest in any way, and ends that match no start.            *)
(***************************************************************************)
NextPath ==
    \/ \E sectionInfo \in SectionInfos : SectionStart(sectionInfo)
    \/ \E sectionStats \in SectionStatsSet : SectionEnd(sectionStats)
    \/ \E n \in SignalNames : FatalSignal(n)

SpecPath == Init /\ [][NextPath]_vars

(***************************************************************************)
(* SpecEvents: an incremental reporter fed the events of runs, test cases, *)
(* sections, assertions and fatal signals in any order.                    *)
(***************************************************************************)
NextEvents ==
    \/ RunStart("run1")
    \/ SectionStart(SectionA)
    \/ AssertionEnd(FailingAssertion)
    \/ SectionEnd(SectionStatsOf(SectionA))
    \/ FatalSignal("SIGSEGV")
    \/ CaseEnd("", "")
    \/ GroupEnd
    \/ RunEnd

SpecEvents == Init /\ [][NextEvents]_vars

(***************************************************************************)
(* SpecGroup: a vstest reporter fed the traversals of test cases whose     *)
(* root sections have different names, or one name on different lines.     *)
(***************************************************************************)
NextGroup ==
    \/ \E sectionInfo \in RootSections : VstestRootStart(sectionInfo)
    \/ \E sectionInfo \in LeafSections : VstestLeafStart(sectionInfo)
    \/ VstestSectionEnd

SpecGroup == Init /\ [][NextGroup]_vars

(***************************************************************************)
(* SpecOutcome: a vstest reporter fed the traversals of the test cases     *)
(* Root{A{l1, l2}} and X, with assertions that fail and fatal signals.     *)
(***************************************************************************)
NextOutcome ==
    \/ \E sectionInfo \in TreeSections : VstestTreeStart(sectionInfo)
    \/ VstestAssertionEnd(FailingAssertion)
    \/ VstestFatalSignal("SIGSEGV")
    \/ VstestSectionEnd

SpecOutcome == Init /\ [][NextOutcome]_vars

(***************************************************************************)
(* SpecSink: a capture sink on a channel that the tests write to, read and *)
(* reset in any order.                                                     *)
(***************************************************************************)
NextSink ==
    \/ \E chunk \in WrittenChunks : SinkWrite(chunk)
    \/ SinkReadAll
    \/ SinkReadLatest
    \/ SinkReset

SpecSink == Init /\ [][NextSink]_vars

(***************************************************************************)
(* SpecCapture: a run that reports through one of the two reporters, each  *)
(* configured with a redirect sink per channel, while the tests write      *)
(* different texts to the channels and fail.                               *)
(***************************************************************************)
\* what the tests write to a redirected channel in such a run
CapturedTexts == { "w", "v" }

\* the pieces of a captured text that came through a redirect sink
FromChannel(text) == SelectSeq(text, LAMBDA piece : piece \in CapturedTexts)

\* the captured texts of a list of records, one after the other
RECURSIVE Flattened(_)
Flattened(texts) ==
    IF texts = <<>> THEN <<>>
    ELSE FromChannel(Head(texts)) \o Flattened(Tail(texts))

\* the unwind contexts of the vstest reporter in the order of their entries,
\* the current one last
UnwindContextList ==
    LET done == m_completedTestEntries
        upTo[n \in 0..Len(done)] ==
            IF n = 0 THEN <<>> ELSE upTo[n - 1] \o done[n].unwindContexts
    IN  Append(upTo[Len(done)], m_currentUnwindContext)

\* what was written to standard output and is held by the records of the
\* two reporters, in the order of the records, and by the sink
CapturedOut ==
    Flattened([i \in 1..Len(m_completedTraversals) |->
                  m_completedTraversals[i].m_stdOutStream])
        \o FromChannel(m_currentTraversal.m_stdOutStream)
        \o Flattened([i \in 1..Len(UnwindContextList) |->
                         UnwindContextList[i].stdOut])
        \o stdOutSink

\* the same for standard error
CapturedErr ==
    Flattened([i \in 1..Len(m_completedTraversals) |->
                  m_completedTraversals[i].m_stdErrStream])
        \o FromChannel(m_currentTraversal.m_stdErrStream)
        \o Flattened([i \in 1..Len(UnwindContextList) |->
                         UnwindContextList[i].stdErr])
        \o stdErrSink

\* the incremental reporter has received no event
IncrementalIdle ==
    /\ m_completedTraversals = <<>>
    /\ m_currentTraversal.allSectionInfo = <<>>
    /\ m_currentTraversal.allAssertionsWithExpansions = <<>>
    /\ m_currentTraversal.fatalSignalName = ""
    /\ m_currentTraversal.m_stdOutStream = <<>>
    /\ m_currentTraversal.m_stdErrStream = <<>>

\* the vstest reporter has received no event
VstestIdle ==
    /\ m_completedTestEntries = <<>>
    /\ m_currentUnwindContext = NewUnwindContext

NextCapture ==
    \/ \E text \in CapturedTexts :
          /\ WriteStdOut(text)
          /\ Len(CapturedOut') + Len(CapturedErr') <= MaxText
    \/ /\ WriteStdErr("w")
       /\ Len(CapturedOut') + Len(CapturedErr') <= MaxText
    \/ VstestIdle /\ SectionStart(SectionA)
    \/ VstestIdle /\ AssertionEnd(FailingAssertionWithInfo)
    \/ VstestIdle /\ SectionEnd(SectionStatsOf(SectionA))
    \/ VstestIdle /\ CaseEnd("c", "")
    \/ IncrementalIdle /\ VstestRootStart(SectionA)
    \/ IncrementalIdle /\ VstestSectionEnd

SpecCapture == InitRedirect /\ [][NextCapture]_vars

(***************************************************************************)
(* SpecRace: the controlling thread flushes a sink again and again while   *)
(* another thread writes text to the redirected channel.                   *)
(***************************************************************************)
NextRace ==
    \/ \E chunk \in { Foo, Bar } : OtherThreadWrite(chunk)
    \/ FlushRead
    \/ ResetRestore
    \/ ResetReopen
    \/ ResetBind

SpecRace == Init /\ [][NextRace]_vars

(***************************************************************************)
(* SpecLifetime: sinks are constructed on a channel that already has one,  *)
(* reset and destroyed in any order, in either build, and any open of a    *)
(* backing store may fail.                                                 *)
(***************************************************************************)
NextLifetime ==
    \/ \E path, opened, msvc \in BOOLEAN : ConstructSink(path, opened, msvc)
    \/ \E i \in 1..MaxSinks, opened, msvc \in BOOLEAN :
          ResetSink(i, opened, msvc)
    \/ \E i \in 1..MaxSinks : DestroySink(i)

SpecLifetime == Init /\ [][NextLifetime]_vars

(***************************************************************************)
(* nanosToDurationString.  A count of nanoseconds is held as whole seconds *)
(* and the nanoseconds of the last second, nanos = seconds * 10^9 +        *)
(* nanoseconds: nanos / 1000000000 is then seconds, and                    *)
(* ( nanos / 100 ) % 10000000 is nanoseconds / 100.                        *)
(***************************************************************************)
DigitChars == << "0", "1", "2", "3", "4", "5", "6", "7", "8", "9" >>

\* operator<< of an unsigned number: its decimal digits
RECURSIVE Digits(_)
Digits(n) ==
    IF n < 10 THEN << DigitChars[n + 1] >>
    ELSE Append(Digits(n \div 10), DigitChars[(n % 10) + 1])

\* std::setfill( '0' ) << std::setw( width ) << n: fill characters are put
\* before the digits when the width is larger than their number
Filled(n, width) ==
    LET digits == Digits(n)
    IN  IF width > Len(digits)
        THEN [i \in 1..(width - Len(digits)) |-> "0"] \o digits
        ELSE digits

nanosToDurationString(nanos) ==
    LET totalHns == (nanos.nanoseconds \div 100) % 10000000
        totalSeconds == nanos.seconds
        totalMinutes == totalSeconds \div 60
        totalHours == totalMinutes \div 60
    IN  Filled(totalHours % 60, 2) \o << ":" >>
            \o Filled(totalMinutes % 60, 2) \o << ":" >>
            \o Filled(totalSeconds % 60, 2) \o << "." >>
            \o Filled(totalHns, -7)

\* the durations rendered
Durations ==
    { [seconds |-> (h * 3600) + (m * 60) + sec, nanoseconds |-> n] :
          h \in 0..MaxHours, m \in { 0, 1, 59 }, sec \in { 0, 1, 59 },
          n \in { 0, 99, 100, 123456700, 999999999 } }

\* a call of nanosToDurationString
RenderDuration(nanos) ==
    /\ durationCall.op = "none"
    /\ durationCall' = [op |-> "rendered", nanos |-> nanos,
                        result |-> nanosToDurationString(nanos)]
    /\ UNCHANGED << m_config, incVars, vstestVars, feedVars, m_tempFile,
                    fileOffset, m_lastGetPosition, sinkCall, written, unread,
                    sinceReset, readsSinceReset, wasReset, channelVars >>

(***************************************************************************)
(* SpecDuration: nanosToDurationString is called with a duration.          *)
(***************************************************************************)
NextDuration == \E nanos \in Durations : RenderDuration(nanos)

SpecDuration == Init /\ [][NextDuration]_vars

(***************************************************************************)
(* SpecEmit: a vstest reporter that writes its document at every section   *)
(* start, fed the traversals of test cases with failing assertions.        *)
(***************************************************************************)
NextEmit ==
    \/ \E sectionInfo \in RootSections : VstestRootStart(sectionInfo)
    \/ \E sectionInfo \in LeafSections : VstestLeafStart(sectionInfo)
    \/ VstestAssertionEnd(FailingAssertion)
    \/ VstestSectionEnd

SpecEmit == InitRedirect /\ [][NextEmit]_vars

(***************************************************************************)
(* SpecFinal: a vstest reporter that writes its document at every section  *)
(* start and at the end of the run, fed traversals with failing assertions *)
(* and fatal signals; the run may end while a traversal is open, and       *)
(* nothing is delivered after its end.                                     *)
(***************************************************************************)
Running == lastEvent # "runEnd"

FinalRoots == { SectionA, SectionX }

NextFinal ==
    \/ \E sectionInfo \in FinalRoots :
          Running /\ VstestRootStart(sectionInfo)
    \/ Running /\ VstestLeafStart(SectionB)
    \/ Running /\ VstestAssertionEnd(FailingAssertion)
    \/ Running /\ VstestFatalSignal("SIGSEGV")
    \/ Running /\ VstestSectionEnd
    \/ Running /\ VstestRunEnd

SpecFinal == InitRedirect /\ [][NextFinal]_vars

(***************************************************************************)
(* SpecRuns: a vstest reporter that writes its document at every section   *)
(* start and at the end of a run, fed the traversals of test cases that    *)
(* pass or fail, before and after the end of a run.                        *)
(***************************************************************************)
NextRuns ==
    \/ \E sectionInfo \in FinalRoots : VstestRootStart(sectionInfo)
    \/ VstestLeafStart(SectionB)
    \/ VstestAssertionEnd(FailingAssertion)
    \/ VstestSectionEnd
    \/ VstestRunEnd

SpecRuns == InitRedirect /\ [][NextRuns]_vars

(***************************************************************************)
(* SpecNames: a vstest reporter is fed one root section whose name is any  *)
(* short string over the alphabet of names, or one of two longer names,    *)
(* and the end of that section.                                            *)
(***************************************************************************)
NameAlphabet == { "a", " ", "[", "]", "," }

TaggedName ==
    << "f", "o", "o", " ", "[", "t", "a", "g", "1", "]", " ", "b", "a", "r" >>

CommaName == << "a", ",", " ", "b" >>

RawNames ==
    UNION { [1..n -> NameAlphabet] : n \in 0..MaxNameLen }
        \cup { TaggedName, CommaName }

NextNames ==
    \/ \E rawName \in RawNames :
          /\ m_completedTestEntries = <<>>
          /\ m_currentUnwindContext.allSectionInfo = <<>>
          /\ VstestRootStart([name |-> rawName, line |-> 1])
    \/ VstestSectionEnd

SpecNames == Init /\ [][NextNames]_vars

(***************************************************************************)
(* Properties.                                                              *)
(***************************************************************************)
\* the section path and the section-stats list of a record are equally long
\* and the path is not empty
HasClosedPath(t) ==
    /\ t.allSectionInfo # <<>>
    /\ Len(t.allSectionInfo) = Len(t.allSectionStats)

\* C1: in a well-formed stream, a sectionEnd that leaves a section open
\* promotes nothing and leaves the current record incomplete; the sectionEnd
\* that closes the outermost of N nested sections promotes a complete record
\* with a path of N sections; and a record of the completed collection that
\* is complete stays complete under every event.
C1_CompleteAtLastSectionEnd ==
    [][ /\ (lastEvent' = "sectionEnd" /\ wellFormed') =>
              IF activeSections' # <<>>
              THEN /\ m_completedTraversals' = m_completedTraversals
                   /\ ~isComplete(m_currentTraversal')
              ELSE /\ ~isComplete(m_currentTraversal)
                   /\ Len(m_completedTraversals') =
                         Len(m_completedTraversals) + 1
                   /\ isComplete(Last(m_completedTraversals'))
                   /\ Len(Last(m_completedTraversals').allSectionInfo) =
                         Len(m_currentTraversal.allSectionInfo)
                   /\ Len(Last(m_completedTraversals').allSectionStats) =
                         Len(m_currentTraversal.allSectionStats) + 1
        /\ \A i \in 1..Len(m_completedTraversals) :
              /\ i <= Len(m_completedTraversals')
              /\ isComplete(m_completedTraversals[i]) =>
                    isComplete(m_completedTraversals'[i])
      ]_vars

\* C1 witness: a record of two nested sections was promoted in a well-formed
\* stream and a later event has been delivered
C1_Witness ==
    /\ wellFormed
    /\ m_completedTraversals # <<>>
    /\ Len(m_completedTraversals[1].allSectionInfo) = 2
    /\ isComplete(m_completedTraversals[1])
    /\ lastEvent = "fatalSignal"

\* C2: whatever the events were, every record of the completed collection has
\* a non-empty section path as long as its section-stats list, and a current
\* record without a section is not complete.
C2_CompletedRecordsAreClosed ==
    /\ \A i \in 1..Len(m_completedTraversals) :
          HasClosedPath(m_completedTraversals[i])
    /\ m_currentTraversal.allSectionInfo = <<>> =>
          ~isComplete(m_currentTraversal)

\* C2 witness: after a sectionEnd without a matching sectionStart the current
\* record holds section stats and no section, next to a promoted record
C2_Witness ==
    /\ ~wellFormed
    /\ m_completedTraversals # <<>>
    /\ m_currentTraversal.allSectionInfo = <<>>
    /\ m_currentTraversal.allSectionStats # <<>>

\* C3: getTraversals() is the completed collection, oldest completion first,
\* followed by the current record exactly when that record has a section.
C3_TraversalsOrder ==
    LET view == getTraversals
        done == Len(m_completedTraversals)
        inFlight == Len(m_currentTraversal.allSectionInfo) >= 1
    IN  /\ Len(view) = done + (IF inFlight THEN 1 ELSE 0)
        /\ \A i \in 1..done : view[i] = m_completedTraversals[i]
        /\ inFlight => view[Len(view)] = m_currentTraversal
        /\ \A i \in 1..done : \A j \in i..done :
              view[i].finishTime <= view[j].finishTime

\* C3 witness: two records completed at different times and a record in
\* flight
C3_Witness ==
    /\ Len(m_completedTraversals) = 2
    /\ m_completedTraversals[1].finishTime < m_completedTraversals[2].finishTime
    /\ m_currentTraversal.allSectionInfo # <<>>

Identity(t) ==
    [ allSectionInfo |-> t.allSectionInfo,
      allSectionStats |-> t.allSectionStats,
      allAssertionsWithExpansions |-> t.allAssertionsWithExpansions,
      fatalSignalName |-> t.fatalSignalName,
      fatalSignalSourceInfo |-> t.fatalSignalSourceInfo,
      testRunInfo |-> t.testRunInfo,
      testGroupInfo |-> t.testGroupInfo,
      testTags |-> t.testTags,
      startTime |-> t.startTime,
      finishTime |-> t.finishTime ]

\* C4: the completed collection only grows, by at most one record per event
\* and only on a sectionEnd; the records it holds stay in place; the record
\* added is the current record, moved out at the sectionEnd that closes its
\* path, and that sectionEnd always moves it.
C4_PromotedExactlyOnce ==
    [][ LET before == m_completedTraversals
            after == m_completedTraversals'
        IN  /\ Len(before) <= Len(after)
            /\ Len(after) <= Len(before) + 1
            /\ \A i \in 1..Len(before) :
                  Identity(after[i]) = Identity(before[i])
            /\ Len(after) > Len(before) =>
                  /\ lastEvent' = "sectionEnd"
                  /\ ~HasClosedPath(m_currentTraversal)
                  /\ HasClosedPath(Last(after))
                  /\ Last(after).allSectionInfo =
                        m_currentTraversal.allSectionInfo
                  /\ m_currentTraversal'.allSectionInfo = <<>>
                  /\ m_currentTraversal'.allSectionStats = <<>>
            /\ ( /\ lastEvent' = "sectionEnd"
                 /\ Len(m_currentTraversal.allSectionInfo) =
                       Len(m_currentTraversal.allSectionStats) + 1 ) =>
                  Len(after) = Len(before) + 1
      ]_vars

\* C4 witness: a second record has just been promoted by a sectionEnd
C4_Witness ==
    /\ lastEvent = "sectionEnd"
    /\ Len(m_completedTraversals) = 2
    /\ m_currentTraversal.allSectionInfo = <<>>

\* C5: no event changes the path, the stats, the assertions, the fatal-signal
\* fields, the run, group and tag context or the times of a record of the
\* completed collection; its captured stdout and stderr text only grow at
\* the end.
C5_CompletedRecordsFrame ==
    [][ \A i \in 1..Len(m_completedTraversals) :
          LET before == m_completedTraversals[i]
              after == m_completedTraversals'[i]
          IN  /\ i <= Len(m_completedTraversals')
              /\ after.allSectionInfo = before.allSectionInfo
              /\ after.allSectionStats = before.allSectionStats
              /\ after.allAssertionsWithExpansions =
                    before.allAssertionsWithExpansions
              /\ after.fatalSignalName = before.fatalSignalName
              /\ after.fatalSignalSourceInfo = before.fatalSignalSourceInfo
              /\ after.testRunInfo = before.testRunInfo
              /\ after.testGroupInfo = before.testGroupInfo
              /\ after.testTags = before.testTags
              /\ after.startTime = before.startTime
              /\ after.finishTime = before.finishTime
              /\ IsPrefix(before.m_stdOutStream, after.m_stdOutStream)
              /\ IsPrefix(before.m_stdErrStream, after.m_stdErrStream)
      ]_vars

\* C5 witness: the end of the test case has appended its stdout to the text
\* of a record that was promoted with text of a failed assertion
C5_Witness ==
    /\ lastEvent = "caseEnd"
    /\ m_completedTraversals # <<>>
    /\ Last(m_completedTraversals).m_stdOutStream = << "INFO: m\n", "c" >>
    /\ Last(m_completedTraversals).fatalSignalName = ""

\* the record that the current record of this state is in the next state
SameRecordNext ==
    IF Len(m_completedTraversals') > Len(m_completedTraversals)
    THEN Last(m_completedTraversals')
    ELSE m_currentTraversal'

\* C7: once the current record carries a fatal-signal name, no event appends
\* to its section path, its section stats or its assertions.
C7_NoAppendAfterFatalSignal ==
    [][ m_currentTraversal.fatalSignalName # "" =>
          /\ SameRecordNext.allSectionInfo = m_currentTraversal.allSectionInfo
          /\ SameRecordNext.allSectionStats =
                m_currentTraversal.allSectionStats
          /\ SameRecordNext.allAssertionsWithExpansions =
                m_currentTraversal.allAssertionsWithExpansions
      ]_vars

\* C8: after a fatalSignal on the current record, whatever the signal name,
\* an assertionEnd leaves the assertions and the captured text of the record
\* as they are and at most overwrites the source location of the signal with
\* the file and line of the assertion - in the incremental reporter and in
\* the vstest reporter.
C8_AssertionAfterFatalSignal ==
    [][ (signalled /\ lastEvent' = "assertionEnd") =>
          /\ m_completedTraversals' = m_completedTraversals
          /\ \/ m_currentTraversal' = m_currentTraversal
             \/ \E a \in AssertionStatsSet :
                   /\ ~a.ok
                   /\ m_currentTraversal' =
                         [m_currentTraversal EXCEPT
                             !.fatalSignalSourceInfo =
                                 [file |-> a.file, line |-> a.line]]
          /\ m_completedTestEntries' = m_completedTestEntries
          /\ \/ m_currentUnwindContext' = m_currentUnwindContext
             \/ \E a \in AssertionStatsSet :
                   /\ ~a.ok
                   /\ m_currentUnwindContext' =
                         [m_currentUnwindContext EXCEPT
                             !.fatalAssertionSource =
                                 << a.file, ":", a.line >>]
      ]_vars

\* the state of the two reporters
recorderVars ==
    << m_currentTestRunInfo, m_currentTestGroupInfo, m_currentTestTags,
       m_completedTraversals, m_currentTraversal, stdOutSink, stdErrSink,
       vstestVars >>

\* every assertion a record holds did not pass
RetainedDidNotPass(assertions) ==
    \A i \in 1..Len(assertions) : ~assertions[i].ok

\* C9: the assertionEnd of a passing assertion changes nothing in either
\* reporter, and every assertion held by any record of either reporter is a
\* non-passing one.
C9_OnlyFailedAssertionsRetained ==
    /\ [][ BothAssertionEnd(PassingAssertion) => UNCHANGED recorderVars ]_vars
    /\ [] /\ \A t \in { m_completedTraversals[i] :
                            i \in 1..Len(m_completedTraversals) }
                        \cup { m_currentTraversal } :
                \A i \in 1..Len(t.allAssertionsWithExpansions) :
                    ~t.allAssertionsWithExpansions[i][1].ok
          /\ RetainedDidNotPass(m_currentUnwindContext.allTerminatedAssertions)
          /\ \A e \in 1..Len(m_completedTestEntries) :
                \A u \in 1..Len(m_completedTestEntries[e].unwindContexts) :
                    RetainedDidNotPass(
                        m_completedTestEntries[e].unwindContexts[u]
                            .allTerminatedAssertions)

\* C9 witness: a passing assertion has ended in an open section of a record
\* without a fatal signal, and the record holds no assertion
C9_Witness ==
    /\ lastEvent = "assertionEnd"
    /\ ~signalled
    /\ m_currentTraversal.allSectionInfo # <<>>
    /\ m_currentTraversal.allAssertionsWithExpansions = <<>>
    /\ m_currentUnwindContext.allTerminatedAssertions = <<>>
    /\ ~m_currentUnwindContext.hasFatalError

\* the records of the incremental reporter
AllTraversals ==
    { m_completedTraversals[i] : i \in 1..Len(m_completedTraversals) }
        \cup { m_currentTraversal }

\* the unwind contexts of the vstest reporter
AllUnwindContexts ==
    UNION { { m_completedTestEntries[e].unwindContexts[u] :
                u \in 1..Len(m_completedTestEntries[e].unwindContexts) } :
            e \in 1..Len(m_completedTestEntries) }
        \cup { m_currentUnwindContext }

Context(t) == << t.testRunInfo, t.testGroupInfo, t.testTags, t.startTime >>

\* C11: a sectionStart delivered while the current record has no section
\* sets the record's run, group and tag context to the values of the most
\* recent runStart, groupStart and caseStart and calls the traversal-opened
\* hook before the section is appended, so the view passed holds only the
\* completed records; a sectionStart delivered while the record has
\* sections calls no hook and changes neither context nor start time; and a
\* runStart, groupStart or caseStart changes no record.
C11_ContextStampedAtFirstSection ==
    [][ /\ RunStart("run1") => m_currentTestRunInfo' = "run1"
        /\ GroupStart([name |-> "g1", groupIndex |-> 1]) =>
              m_currentTestGroupInfo' = [name |-> "g1", groupIndex |-> 1]
        /\ CaseStart(<<"t">>) => m_currentTestTags' = <<"t">>
        /\ lastEvent' \notin {"runStart", "groupStart", "caseStart"} =>
              UNCHANGED << m_currentTestRunInfo, m_currentTestGroupInfo,
                           m_currentTestTags >>
        /\ lastEvent' \in {"runStart", "groupStart", "caseStart"} =>
              UNCHANGED << m_currentTraversal, m_completedTraversals >>
        /\ lastEvent' = "sectionStart" =>
              IF m_currentTraversal.allSectionInfo = <<>>
              THEN /\ m_currentTraversal'.testRunInfo = m_currentTestRunInfo
                   /\ m_currentTraversal'.testGroupInfo =
                         m_currentTestGroupInfo
                   /\ m_currentTraversal'.testTags = m_currentTestTags
                   /\ hookCall'.hook = "sectionTraversalStarting"
                   /\ hookCall'.traversals = m_completedTraversals
                   /\ Len(m_currentTraversal'.allSectionInfo) = 1
              ELSE /\ hookCall' = NoHook
                   /\ Context(m_currentTraversal') =
                         Context(m_currentTraversal)
      ]_vars

\* C11 witness: after one record was completed without context, a run, a
\* group and a test case started and the first section of the next record
\* has just started: the hook saw the completed record only
C11_Witness ==
    /\ lastEvent = "sectionStart"
    /\ Len(m_completedTraversals) = 1
    /\ m_completedTraversals[1].testRunInfo = ""
    /\ Len(m_currentTraversal.allSectionInfo) = 1
    /\ m_currentTraversal.testRunInfo = "run1"
    /\ m_currentTraversal.testGroupInfo.name = "g1"
    /\ m_currentTraversal.testTags = <<"t">>
    /\ hookCall.hook = "sectionTraversalStarting"
    /\ hookCall.traversals = m_completedTraversals

\* a record that holds nothing
IsEmptyRecord(t) ==
    /\ t.allSectionInfo = <<>>
    /\ t.allSectionStats = <<>>
    /\ t.allAssertionsWithExpansions = <<>>
    /\ t.fatalSignalName = ""
    /\ t.m_stdOutStream = <<>>
    /\ t.m_stdErrStream = <<>>

\* C12: the sectionEnd that completes the current record flushes the
\* pending captured output of both channels into the record, stamps its
\* finish time and moves it to the completed collection; the
\* traversal-closed hook is then called with a view whose last element is
\* the record just closed and that has no in-flight entry; afterwards the
\* current record has no section, no stats, no assertion, no fatal signal
\* and no captured text.
C12_PromotionFlushesStampsAndCallsHook ==
    [][ (/\ lastEvent' = "sectionEnd"
         /\ Len(m_completedTraversals') > Len(m_completedTraversals)) =>
            LET closed == Last(m_completedTraversals')
            IN  /\ m_completedTraversals' =
                      Append(m_completedTraversals, closed)
                /\ closed.allSectionInfo = m_currentTraversal.allSectionInfo
                /\ closed.m_stdOutStream =
                      m_currentTraversal.m_stdOutStream \o stdOutSink
                /\ closed.m_stdErrStream =
                      m_currentTraversal.m_stdErrStream \o stdErrSink
                /\ stdOutSink' = <<>>
                /\ stdErrSink' = <<>>
                /\ closed.finishTime = clock
                /\ hookCall'.hook = "sectionTraversalEnded"
                /\ hookCall'.traversals = m_completedTraversals'
                /\ Last(hookCall'.traversals) = closed
                /\ IsEmptyRecord(m_currentTraversal')
      ]_vars

\* C12 witness: a record that crashed after a failed assertion, with pending
\* output on both channels, has just been closed after the clock advanced
C12_Witness ==
    /\ lastEvent = "sectionEnd"
    /\ hookCall.hook = "sectionTraversalEnded"
    /\ Len(m_completedTraversals) = 1
    /\ m_completedTraversals[1].fatalSignalName = "SIGSEGV"
    /\ m_completedTraversals[1].allAssertionsWithExpansions # <<>>
    /\ m_completedTraversals[1].m_stdOutStream # <<>>
    /\ m_completedTraversals[1].m_stdErrStream = << "w" >>
    /\ m_completedTraversals[1].finishTime = 1
    /\ IsEmptyRecord(m_currentTraversal)

\* the pieces of a captured text that were written through a redirect sink
Written(text) == SelectSeq(text, LAMBDA piece : piece \in WrittenTexts)

\* both sinks belong to the current record and to no completed record
SinksOwnedByCurrent ==
    /\ m_currentTraversal.m_stdOutSourceSink
    /\ m_currentTraversal.m_stdErrSourceSink
    /\ \A i \in 1..Len(m_completedTraversals) :
          /\ ~m_completedTraversals[i].m_stdOutSourceSink
          /\ ~m_completedTraversals[i].m_stdErrSourceSink

\* C13: with per-traversal redirection, in every state after construction
\* each sink is owned by the current record and by no completed record, and
\* no event adds output written through a sink to a record that is already
\* in the completed collection: what is written after a promotion stays in
\* the sink or goes to the current record.
C13_SinksFollowCurrentRecord ==
    [][ /\ SinksOwnedByCurrent
        /\ SinksOwnedByCurrent'
        /\ \A i \in 1..Len(m_completedTraversals) :
              /\ i <= Len(m_completedTraversals')
              /\ Written(m_completedTraversals'[i].m_stdOutStream) =
                    Written(m_completedTraversals[i].m_stdOutStream)
              /\ Written(m_completedTraversals'[i].m_stdErrStream) =
                    Written(m_completedTraversals[i].m_stdErrStream)
        /\ Len(Written(m_currentTraversal'.m_stdOutStream))
              + Len(stdOutSink')
              + (IF Len(m_completedTraversals') > Len(m_completedTraversals)
                 THEN Len(Written(Last(m_completedTraversals').m_stdOutStream))
                 ELSE 0)
              >= Len(Written(m_currentTraversal.m_stdOutStream))
                    + Len(stdOutSink)
      ]_vars

\* C13 witness: after a promotion the test wrote to standard output and the
\* test case ended: the text of the test case went to the completed record,
\* the written output is still in the sink of the current record
C13_Witness ==
    /\ lastEvent = "caseEnd"
    /\ Len(m_completedTraversals) = 1
    /\ m_completedTraversals[1].m_stdOutStream = << "c" >>
    /\ stdOutSink = << "w" >>
    /\ m_currentTraversal.m_stdOutSourceSink
    /\ ~m_completedTraversals[1].m_stdOutSourceSink

\* C14: in a well-formed stream there are as many completed records as
\* returns of the nesting depth to zero, the path of the k-th completed
\* record lists, in start order, exactly the sections started between the
\* (k-1)-th and the k-th return, and the current record lists the sections
\* started since the last return; a stream of a single section gives one
\* record with a path of length one.
C14_PathsFollowDepthZeroReturns ==
    wellFormed =>
        /\ Len(m_completedTraversals) = Len(closedPaths)
        /\ \A k \in 1..Len(closedPaths) :
              m_completedTraversals[k].allSectionInfo = closedPaths[k]
        /\ m_currentTraversal.allSectionInfo = startedSections
        /\ closedPaths = << << SectionA >> >> =>
              /\ Len(m_completedTraversals) = 1
              /\ Len(m_completedTraversals[1].allSectionInfo) = 1

\* C14 witness: a well-formed stream of section B nested in section A and
\* then section B alone has ended
C14_Witness ==
    /\ wellFormed
    /\ lastEvent = "sectionEnd"
    /\ closedPaths = << << SectionA, SectionB >>, << SectionB >> >>
    /\ Len(m_completedTraversals) = 2
    /\ m_completedTraversals[1].allSectionInfo = << SectionA, SectionB >>
    /\ m_completedTraversals[2].allSectionInfo = << SectionB >>

\* C15: no event is rejected: in every reachable state the handler of each
\* of runStart, groupStart, caseStart, sectionStart, assertionEnd,
\* sectionEnd, fatalSignal, caseEnd, groupEnd and runEnd can run to
\* completion with every input, a sectionEnd that matches no sectionStart
\* included, and assertionEnded has returned true.
C15_NoEventIsRejected ==
    /\ \A testRunInfo \in TestRunInfos : ENABLED testRunStarting(testRunInfo)
    /\ \A testGroupInfo \in GroupInfos :
          ENABLED testGroupStarting(testGroupInfo)
    /\ \A tags \in TagLists : ENABLED testCaseStarting(tags)
    /\ \A sectionInfo \in SectionInfos : ENABLED sectionStarting(sectionInfo)
    /\ \A assertionStats \in AssertionStatsSet :
          ENABLED assertionEnded(assertionStats)
    /\ \A sectionStats \in SectionStatsSet : ENABLED sectionEnded(sectionStats)
    /\ \A signalName \in SignalNames :
          ENABLED fatalErrorEncountered(signalName)
    /\ \A stdOut \in CaseTexts : \A stdErr \in CaseTexts :
          ENABLED testCaseEnded(stdOut, stdErr)
    /\ ENABLED emptyHandler
    /\ lastEvent = "assertionEnd" => returned = << TRUE >>

\* C15 witness: a sectionEnd that matches no sectionStart was delivered to a
\* reporter whose record had no section; its completion record was taken
\* and an assertionEnd was delivered afterwards
C15_Witness ==
    /\ ~wellFormed
    /\ lastEvent = "assertionEnd"
    /\ returned = << TRUE >>
    /\ m_completedTraversals = <<>>
    /\ m_currentTraversal.allSectionInfo = <<>>
    /\ m_currentTraversal.allSectionStats # <<>>

\* the identifier of a root section in the report: its name as the vstest
\* reporter writes it
RootName(context) == getSanitizedTrxName(context.allSectionInfo[1].name)

\* the section paths of the traversals of a grouped result
PathsOf(entry) ==
    [i \in 1..Len(entry.unwindContexts) |->
        entry.unwindContexts[i].allSectionInfo]

C17_DifferentRootsNeverMerge ==
    \A e \in 1..Len(m_completedTestEntries) :
        \A i \in 1..Len(m_completedTestEntries[e].unwindContexts) :
            contextCouldBeInEntry(
                m_completedTestEntries[e].unwindContexts[i],
                m_completedTestEntries[e])

\* a traversal has a failure: an assertion that did not pass or a fatal error
MemberFailed(context) ==
    \/ context.hasFatalError
    \/ \E i \in 1..Len(context.allTerminatedAssertions) :
          ~context.allTerminatedAssertions[i].ok

\* the outcome an emission writes for the k-th grouped result
GroupOutcome(k) == ToplevelOutcome(m_completedTestEntries[k])

C19_ReadsReturnWhatWasWritten ==
    [][ ~wasReset =>
            /\ getAllContents => sinkCall'.result = written
            /\ getLatestContents => sinkCall'.result = unread ]_vars

\* no byte of value zero was written to the channel
TextOnly == \A i \in 1..Len(written) : written[i] # NUL

\* the same for a channel that took no byte of value zero
C19_TextReadsReturnWhatWasWritten ==
    [][ (~wasReset /\ TextOnly) =>
            /\ getAllContents => sinkCall'.result = written
            /\ getLatestContents => sinkCall'.result = unread ]_vars

\* "foo" was written and read with readAll(), then "bar" was written and
\* readLatest() returned "bar"
C19_TextWitness ==
    /\ ~wasReset
    /\ written = Foo \o Bar
    /\ sinkCall = [op |-> "getLatestContents", result |-> Bar]


(***************************************************************************)
(* C20.  reset() discards the store, attaches an empty one and puts the    *)
(* read cursor at its start: the first read call after a reset, readAll()  *)
(* or readLatest(), returns exactly the bytes written since the reset, in  *)
(* full and with no byte written before it.  Stated for a channel that     *)
(* took no byte of value zero.                                             *)
(***************************************************************************)
C20_ReadsAfterResetReturnWhatWasWrittenSince ==
    [][ (wasReset /\ TextOnly /\ readsSinceReset = 0) =>
            /\ getAllContents => sinkCall'.result = sinceReset
            /\ getLatestContents => sinkCall'.result = sinceReset ]_vars

\* the part of it that is about readAll()
C20_ReadAllAfterReset ==
    [][ (wasReset /\ TextOnly /\ readsSinceReset = 0 /\ getAllContents)
            => sinkCall'.result = sinceReset ]_vars

\* "foo" was written and read, the sink was reset, "bar" was written and the
\* first read call after the reset was made
C20_Witness ==
    /\ wasReset
    /\ written = Foo \o Bar
    /\ sinceReset = Bar
    /\ readsSinceReset = 1
    /\ sinkCall.op \in {"getAllContents", "getLatestContents"}


\* the captured standard output of the record that owns the sinks before a
\* step, as it is after the step: the record is still the current one or
\* has just been promoted
OwnerOutAfter ==
    IF VstestIdle /\ VstestIdle'
    THEN IF Len(m_completedTraversals') > Len(m_completedTraversals)
         THEN Last(m_completedTraversals').m_stdOutStream
         ELSE m_currentTraversal'.m_stdOutStream
    ELSE IF Len(UnwindContextList') > Len(UnwindContextList)
         THEN UnwindContextList'[Len(UnwindContextList)].stdOut
         ELSE m_currentUnwindContext'.stdOut

\* the same for standard error
OwnerErrAfter ==
    IF VstestIdle /\ VstestIdle'
    THEN IF Len(m_completedTraversals') > Len(m_completedTraversals)
         THEN Last(m_completedTraversals').m_stdErrStream
         ELSE m_currentTraversal'.m_stdErrStream
    ELSE IF Len(UnwindContextList') > Len(UnwindContextList)
         THEN UnwindContextList'[Len(UnwindContextList)].stdErr
         ELSE m_currentUnwindContext'.stdErr

\* the captured text of the record that owns the sinks
OwnerOut ==
    IF VstestIdle THEN m_currentTraversal.m_stdOutStream
    ELSE m_currentUnwindContext.stdOut

OwnerErr ==
    IF VstestIdle THEN m_currentTraversal.m_stdErrStream
    ELSE m_currentUnwindContext.stdErr

C21_PromotionWitness ==
    /\ lastEvent = "sectionEnd"
    /\ Len(m_completedTraversals) = 1
    /\ m_completedTraversals[1].m_stdOutStream = << "w", "v" >>
    /\ stdOutSink = <<>>

\* the vstest reporter: the text written during the first unwind is in its
\* context, the text written since is in the sink
C21_VstestWitness ==
    /\ Len(m_completedTestEntries) = 1
    /\ Len(m_completedTestEntries[1].unwindContexts) = 1
    /\ m_completedTestEntries[1].unwindContexts[1].stdOut = << "w" >>
    /\ m_currentUnwindContext.stdOut = <<>>
    /\ stdOutSink = << "v" >>


(***************************************************************************)
(* C22.  What another thread writes to the redirected channel at any point *)
(* of the capture window, also while the controlling thread is between the *)
(* read and the reset of a flush or inside reset(), is captured: nothing   *)
(* reaches the original destination, and every byte written is in the     *)
(* text the flushes have read or still in the store of the sink.           *)
(***************************************************************************)
C22_ConcurrentWritesAreCaptured ==
    /\ original = <<>>
    /\ flushStep = "idle" => written = flushedText \o m_tempFile

\* the part of it that holds: what is written while no flush is under way
\* is captured
C22_WritesOutsideFlushAreCaptured ==
    [][ (flushStep = "idle" /\ written = flushedText \o m_tempFile
            /\ \E chunk \in { Foo, Bar } : OtherThreadWrite(chunk))
            => (original' = original /\ written' = flushedText' \o m_tempFile')
      ]_vars


(***************************************************************************)
(* C23.  When the backing store of a sink cannot be created or opened, at  *)
(* construction or at reset, the operation reports a hard error to its     *)
(* caller and the channel is not bound to a store that is not open.  (One  *)
(* operation makes one attempt to open: the code has no loop around it.)   *)
(***************************************************************************)
C23_OpenFailureIsAHardError ==
    ("opened" \in DOMAIN sinkCall /\ ~sinkCall.opened) =>
        /\ sinkCall.outcome = "thrown"
        /\ channel # NoStore

\* the part of it that holds: the channel is never bound to a store that is
\* not open, and in a build with _MSC_VER the failure is thrown
C23_NoRedirectionToAnInvalidStore == channel # NoStore


\* every "[" of the name is followed later by a "]"
Balanced(rawName) ==
    \A i \in 1..Len(rawName) :
        rawName[i] = "[" => \E j \in (i + 1)..Len(rawName) : rawName[j] = "]"

\* The sanitized name as the specification words it, read one character at
\* a time from position i: outside a [tag] group a "[" opens a group, a
\* comma is removed and any other character is kept; inside a group
\* everything is removed up to the first "]"; the character that follows
\* the group is removed when it is a space and the last kept character was
\* a space.
RECURSIVE DescribedFrom(_, _, _, _)
DescribedFrom(rawName, i, mode, lastKept) ==
    IF i > Len(rawName) THEN <<>>
    ELSE LET c == rawName[i]
         IN  IF mode = "group"
             THEN DescribedFrom(rawName, i + 1,
                                IF c = "]" THEN "closed" ELSE "group",
                                lastKept)
             ELSE IF mode = "closed" /\ c = " " /\ lastKept = " "
             THEN DescribedFrom(rawName, i + 1, "outside", lastKept)
             ELSE IF c = "["
             THEN DescribedFrom(rawName, i + 1, "group", lastKept)
             ELSE IF c = ","
             THEN DescribedFrom(rawName, i + 1, "outside", lastKept)
             ELSE << c >> \o DescribedFrom(rawName, i + 1, "outside", c)

\* without the whitespace at both ends
Trimmed(str) ==
    LET inner == { i \in 1..Len(str) : str[i] \notin Whitespace }
    IN  IF inner = {} THEN <<>>
        ELSE SubSeq(str, Least(inner),
                    CHOOSE i \in inner : \A j \in inner : j <= i)

DescribedName(rawName) == Trimmed(DescribedFrom(rawName, 1, "outside", ""))

\* the name of the root section whose end was just delivered
EndedRootName ==
    IF m_completedTestEntries # <<>>
    THEN m_completedTestEntries[1].unwindContexts[1].allSectionInfo[1].name
    ELSE m_currentUnwindContext.allSectionInfo[1].name

\* the root section of the run has ended
RootEnded == lastEvent = "sectionEnd" /\ activeSections = <<>>

(***************************************************************************)
(* C24.  For every root name in which each "[" is followed later by a "]", *)
(* the grouped entry is created and its name is the root name with every   *)
(* [tag] group removed, the space after a removed group dropped when the   *)
(* last kept character was a space, every comma removed and the whitespace *)
(* at both ends trimmed; it holds no "[" and no ",".  "foo [tag1] bar"     *)
(* gives "foo bar" and "a, b" gives "a b".                                 *)
(***************************************************************************)
C24_SanitizedNameIsAsDescribed ==
    (RootEnded /\ Balanced(EndedRootName)) =>
        /\ Len(m_completedTestEntries) = 1
        /\ LET name == m_completedTestEntries[1].name
           IN  /\ name = DescribedName(EndedRootName)
               /\ \A i \in 1..Len(name) : name[i] \notin { "[", "," }
               /\ EndedRootName = TaggedName =>
                     name = << "f", "o", "o", " ", "b", "a", "r" >>
               /\ EndedRootName = CommaName => name = << "a", " ", "b" >>

\* C24 witness: the entry of a name that is an empty tag between two spaces
\* has been created, with nothing left of the name
C24_Witness ==
    /\ RootEnded
    /\ Len(m_completedTestEntries) = 1
    /\ EndedRootName = << " ", "[", "]", " " >>
    /\ m_completedTestEntries[1].name = <<>>

\* the entry of "foo [tag1] bar" has been created
C24_TaggedNameWitness ==
    /\ RootEnded
    /\ Len(m_completedTestEntries) = 1
    /\ EndedRootName = TaggedName
    /\ m_completedTestEntries[1].name =
          << "f", "o", "o", " ", "b", "a", "r" >>

(***************************************************************************)
(* C25.  Name sanitization is idempotent: for every root name with         *)
(* balanced brackets, sanitizing the name of its entry again raises no     *)
(* error and returns that name unchanged.                                  *)
(***************************************************************************)
C25_SanitizationIsIdempotent ==
    (RootEnded /\ Balanced(EndedRootName)) =>
        /\ Len(m_completedTestEntries) = 1
        /\ ~UnclosedTagFrom(m_completedTestEntries[1].name, 1, "")
        /\ getSanitizedTrxName(m_completedTestEntries[1].name) =
              m_completedTestEntries[1].name

\* C25 witness: the entry of a name that sanitization changes at both ends
\* and in the middle has been created
C25_Witness ==
    /\ RootEnded
    /\ Len(m_completedTestEntries) = 1
    /\ EndedRootName = << " ", " ", "a", " " >>
    /\ m_completedTestEntries[1].name = << "a" >>


(***************************************************************************)
(* C26.  A root name with a "[" that no "]" follows is a hard error: when  *)
(* the end of the root section is delivered no sanitized name is returned  *)
(* and no grouped entry is created; the error leaves the handler, which    *)
(* keeps the unwind it was recording.                                      *)
(***************************************************************************)
C26_UnclosedTagIsAHardError ==
    (RootEnded /\ ~Balanced(EndedRootName)) =>
        /\ m_completedTestEntries = <<>>
        /\ m_currentUnwindContext.allSectionStats # <<>>
        /\ UnclosedTagFrom(EndedRootName, 1, "")

\* C26 witness: the end of a root whose name closes one tag and leaves a
\* second one open has been delivered
C26_Witness ==
    /\ RootEnded
    /\ m_completedTestEntries = <<>>
    /\ EndedRootName = << "[", "]", "[", "a" >>


\* the decimal digits of n in exactly width places, zeros in front
ZeroPadded(n, width) ==
    [i \in 1..width |-> DigitChars[((n \div (10 ^ (width - i))) % 10) + 1]]

\* the part of a rendered duration before its last 15 characters
HoursField(result) == SubSeq(result, 1, Len(result) - 15)

\* the last 15 characters of a rendered duration
AfterHours(result) == SubSeq(result, Len(result) - 14, Len(result))

(***************************************************************************)
(* C27.  A duration is rendered as HH:MM:SS.fffffff: after the hours come  *)
(* ":", the minutes mod 60 in two zero-padded digits, ":", the seconds mod *)
(* 60 in two zero-padded digits, "." and exactly seven zero-padded digits  *)
(* that are (nanoseconds / 100) mod 10^7; 0 ns gives "00:00:00.0000000"    *)
(* and 3,661,000,000,000 ns gives "01:01:01.0000000".                      *)
(***************************************************************************)
C27_DurationIsRenderedWithSevenFractionDigits ==
    durationCall.op = "rendered" =>
        LET nanos == durationCall.nanos
            result == durationCall.result
        IN  /\ Len(result) >= 16
            /\ AfterHours(result) =
                  << ":" >> \o ZeroPadded((nanos.seconds \div 60) % 60, 2)
                      \o << ":" >> \o ZeroPadded(nanos.seconds % 60, 2)
                      \o << "." >>
                      \o ZeroPadded((nanos.nanoseconds \div 100) % 10000000, 7)
            /\ nanos = [seconds |-> 0, nanoseconds |-> 0] =>
                  result = << "0", "0", ":", "0", "0", ":", "0", "0", ".",
                              "0", "0", "0", "0", "0", "0", "0" >>
            /\ nanos = [seconds |-> 3661, nanoseconds |-> 0] =>
                  result = << "0", "1", ":", "0", "1", ":", "0", "1", ".",
                              "0", "0", "0", "0", "0", "0", "0" >>

\* what holds of the minutes, the seconds and the fraction: the two fields
\* are as described, and the fraction has the digits of its value with no
\* zeros in front
C27_FractionIsRenderedWithoutPadding ==
    durationCall.op = "rendered" =>
        LET nanos == durationCall.nanos
            result == durationCall.result
        IN  /\ SubSeq(result, 3, 9) =
                  << ":" >> \o ZeroPadded((nanos.seconds \div 60) % 60, 2)
                      \o << ":" >> \o ZeroPadded(nanos.seconds % 60, 2)
                      \o << "." >>
            /\ SubSeq(result, 10, Len(result)) =
                  Digits((nanos.nanoseconds \div 100) % 10000000)

\* a duration of no time has been rendered, with one digit after the point
C27_ZeroWitness ==
    /\ durationCall.op = "rendered"
    /\ durationCall.nanos = [seconds |-> 0, nanoseconds |-> 0]
    /\ durationCall.result =
          << "0", "0", ":", "0", "0", ":", "0", "0", ".", "0" >>

(***************************************************************************)
(* C28.  The hours field of a rendered duration is the number of whole     *)
(* hours of the duration for every duration below 100 hours, durations of  *)
(* 60 hours and more included.                                             *)
(***************************************************************************)
C28_HoursAreNotClamped ==
    (durationCall.op = "rendered" /\ durationCall.nanos.seconds < 100 * 3600)
        => SubSeq(durationCall.result, 1, 2) =
              ZeroPadded(durationCall.nanos.seconds \div 3600, 2)

\* what holds of the hours: the field is the number of whole hours for
\* every duration below 60 hours, and that number mod 60 for every duration
C28_HoursAreRenderedModSixty ==
    durationCall.op = "rendered" =>
        /\ SubSeq(durationCall.result, 1, 2) =
              ZeroPadded((durationCall.nanos.seconds \div 3600) % 60, 2)
        /\ durationCall.result[3] = ":"

\* a duration of 61 hours has been rendered with "01" as its hours
C28_SixtyOneHoursWitness ==
    /\ durationCall.op = "rendered"
    /\ durationCall.nanos = [seconds |-> 61 * 3600, nanoseconds |-> 0]
    /\ SubSeq(durationCall.result, 1, 2) = << "0", "1" >>


\* the last operation of a sink opened its store, if it had one to open,
\* and returned
Completed(op) ==
    /\ sinkCall.op = op
    /\ sinkCall.opened
    /\ sinkCall.outcome = "returned"

(***************************************************************************)
(* C29.  A sink owns the redirection for its lifetime: after its           *)
(* construction and after every completed reset the channel is bound to    *)
(* the sink's current store; after its destruction the channel is bound to *)
(* the destination it had when the sink was constructed; and when the      *)
(* inner of two sinks on the channel is destroyed first, the channel is    *)
(* bound again to the outer sink's store.                                  *)
(***************************************************************************)
C29_SinkOwnsTheRedirection ==
    /\ (Completed("construct") \/ Completed("reset")) =>
          channel = liveSinks[sinkCall.sink].store
    /\ Completed("destroy") => channel = sinkCall.copy
    /\ ( /\ Completed("destroy")
         /\ liveSinks # <<>>
         /\ sinkCall.sink = Len(liveSinks) + 1
         /\ sinkCall.inside
         /\ sinkCall.store # NoStore
         /\ Last(liveSinks).store # NoStore )
          => channel = Last(liveSinks).store

\* what holds: construction and reset bind the channel to the sink's store,
\* destruction binds it to what the sink saved when it was constructed
C29_OperationsBindTheChannel ==
    /\ (Completed("construct") \/ Completed("reset")) =>
          channel = liveSinks[sinkCall.sink].store
    /\ Completed("destroy") => channel = sinkCall.copy

\* the inner of two sinks was destroyed after the outer one, whose store is
\* a temporary file, was reset: the channel is bound to the store the outer
\* sink has closed
C29_StaleStoreWitness ==
    /\ Completed("destroy")
    /\ Len(liveSinks) = 1
    /\ sinkCall.sink = 2
    /\ sinkCall.inside
    /\ sinkCall.store # NoStore
    /\ ~liveSinks[1].path
    /\ liveSinks[1].store # NoStore
    /\ channel # liveSinks[1].store
    /\ channel # OriginalDestination

\* the inner of two sinks was destroyed with the outer one never reset: the
\* channel is bound to the outer sink's store
C29_ReverseOrderWitness ==
    /\ Completed("destroy")
    /\ Len(liveSinks) = 1
    /\ sinkCall.sink = 2
    /\ sinkCall.inside
    /\ channel = liveSinks[1].store
    /\ channel # NoStore


\* the document of an intermediate emission was just written for the
\* traversal that is open
EmittedWhileOpen ==
    /\ lastEvent = "sectionStart"
    /\ m_xml # <<>>
    /\ m_xml[1].emissionType = "Intermediate"
    /\ m_currentUnwindContext.allSectionInfo # <<>>
    /\ ~unwindIsComplete(m_currentUnwindContext)

\* the results of the document marked as in progress
InProgressResults ==
    LET results == m_xml[1].results
    IN  { place \in UNION { { << i, j >> : j \in 1..Len(results[i].inner) } :
                              i \in 1..Len(results) } :
              Last(results[place[1]].inner[place[2]].name) =
                  " (in progress)" }

(***************************************************************************)
(* C30.  In every intermediate emission the traversal that is open and not *)
(* complete is reported exactly once, as an inner result of the group with *)
(* its root or of its own temporary top-level result, with outcome Failed, *)
(* marked as in progress, and with the message that execution terminated   *)
(* before the test completed.                                              *)
(***************************************************************************)
C30_OpenTraversalIsReportedOnceAsFailed ==
    EmittedWhileOpen =>
        LET results == m_xml[1].results
            last == Len(results)
        IN  /\ Cardinality(InProgressResults) = 1
            /\ \A place \in InProgressResults :
                  LET result == results[place[1]].inner[place[2]]
                  IN  /\ place[1] = last
                      /\ result.name =
                            constructFullName(
                                m_currentUnwindContext.allSectionInfo)
                                \o << " (in progress)" >>
                      /\ result.outcome = "Failed"
                      /\ result.message # <<>>
                      /\ Head(result.message) = TerminatedMessage

\* what holds: the open traversal has a result in the last top-level result
\* of the document, Failed, in progress and with the message; every result
\* marked as in progress is a result of the open traversal with these
\* properties; and there is one such result when no test before the last
\* one has the root of the open traversal
C30_OpenTraversalIsReportedAsFailed ==
    EmittedWhileOpen =>
        LET results == m_xml[1].results
            last == Len(results)
            entries == m_completedTestEntries
        IN  /\ \E place \in InProgressResults : place[1] = last
            /\ (\A i \in 1..(Len(entries) - 1) :
                    ~contextCouldBeInEntry(m_currentUnwindContext, entries[i]))
                  => Cardinality(InProgressResults) = 1
            /\ \A place \in InProgressResults :
                  LET result == results[place[1]].inner[place[2]]
                  IN  /\ result.name =
                            constructFullName(
                                m_currentUnwindContext.allSectionInfo)
                                \o << " (in progress)" >>
                      /\ result.outcome = "Failed"
                      /\ result.message # <<>>
                      /\ Head(result.message) = TerminatedMessage

\* the open traversal is reported twice: in the group of an earlier test
\* with its root and in a temporary top-level result
C30_ReportedTwiceWitness ==
    /\ EmittedWhileOpen
    /\ Len(m_completedTestEntries) = 2
    /\ Len(m_xml[1].results) = 3
    /\ InProgressResults = { << 1, 2 >>, << 3, 1 >> }

\* the open traversal is reported once, in the group of the test with its
\* root
C30_InnerResultWitness ==
    /\ EmittedWhileOpen
    /\ Len(m_completedTestEntries) = 1
    /\ Len(m_xml[1].results) = 1
    /\ InProgressResults = { << 1, 2 >> }

\* the open traversal is reported once, in a temporary top-level result
C30_TemporaryResultWitness ==
    /\ EmittedWhileOpen
    /\ Len(m_completedTestEntries) = 1
    /\ Len(m_xml[1].results) = 2
    /\ InProgressResults = { << 2, 1 >> }


\* the document was written by the event just delivered
JustEmitted ==
    /\ m_xml # <<>>
    /\ lastEvent \in { "sectionStart", "runEnd" }

\* the places of the document that are not results of a completed unwind:
\* inner results after those of the unwinds of a test entry, and inner
\* results of a top-level result that is no test entry
OpenResultPlaces ==
    LET results == m_xml[1].results
        entries == m_completedTestEntries
    IN  { place \in UNION { { << i, j >> : j \in 1..Len(results[i].inner) } :
                              i \in 1..Len(results) } :
              \/ place[1] > Len(entries)
              \/ place[2] > Len(entries[place[1]].unwindContexts) }

\* a traversal is open and a fatal signal was recorded on it
OpenWithFatalError ==
    /\ m_currentUnwindContext.allSectionInfo # <<>>
    /\ m_currentUnwindContext.hasFatalError

(***************************************************************************)
(* C31.  A traversal on which a fatal signal was recorded is surfaced as a *)
(* failure in every emission: the result of a test entry that holds such a *)
(* traversal is Failed, and a traversal that is still open has a Failed    *)
(* result of its own, also in the final emission at the end of the run.    *)
(***************************************************************************)
C31_FatalTraversalIsSurfacedAsFailure ==
    JustEmitted =>
        LET results == m_xml[1].results
            entries == m_completedTestEntries
        IN  /\ \A i \in 1..Len(entries) :
                  (\E j \in 1..Len(entries[i].unwindContexts) :
                      entries[i].unwindContexts[j].hasFatalError)
                    => results[i].outcome = "Failed"
            /\ OpenWithFatalError =>
                  \E place \in OpenResultPlaces :
                      results[place[1]].inner[place[2]].outcome = "Failed"

\* what holds: the same, for every emission but the final one with a
\* traversal open
C31_FatalTraversalIsSurfacedUnlessOpenAtRunEnd ==
    JustEmitted =>
        LET results == m_xml[1].results
            entries == m_completedTestEntries
        IN  /\ \A i \in 1..Len(entries) :
                  (\E j \in 1..Len(entries[i].unwindContexts) :
                      entries[i].unwindContexts[j].hasFatalError)
                    => results[i].outcome = "Failed"
            /\ (OpenWithFatalError /\ lastEvent # "runEnd") =>
                  \E place \in OpenResultPlaces :
                      results[place[1]].inner[place[2]].outcome = "Failed"

\* the run ended with a fatal signal recorded on the open traversal, and the
\* final document has no result that is not of a completed unwind
C31_OpenAtRunEndWitness ==
    /\ lastEvent = "runEnd"
    /\ OpenWithFatalError
    /\ m_xml[1].emissionType = "Final"
    /\ OpenResultPlaces = {}

\* a section was opened inside a traversal with a fatal signal recorded and
\* the intermediate document holds its Failed result
C31_IntermediateWitness ==
    /\ lastEvent = "sectionStart"
    /\ OpenWithFatalError
    /\ \E place \in OpenResultPlaces :
          m_xml[1].results[place[1]].inner[place[2]].outcome = "Failed"


\* a traversal is in flight: the current record holds a section
InFlight == m_currentTraversal.allSectionInfo # <<>>

(***************************************************************************)
(* C32.  For every well-formed event stream the traversal-opened and       *)
(* traversal-closed hooks alternate, starting with opened: the opened hook *)
(* is called only when no traversal is in flight and puts one in flight,   *)
(* the closed hook is called only when one is in flight, ends it and adds  *)
(* one record to the completed collection, and an event that calls no hook *)
(* changes neither; so the closed calls number the completed records and   *)
(* the opened calls one more exactly while a traversal is in flight.       *)
(***************************************************************************)
C32_HooksAlternate ==
    [][ wellFormed' =>
          /\ hookCall'.hook = "sectionTraversalStarting" =>
                /\ ~InFlight
                /\ InFlight'
                /\ m_completedTraversals' = m_completedTraversals
          /\ hookCall'.hook = "sectionTraversalEnded" =>
                /\ InFlight
                /\ ~InFlight'
                /\ Len(m_completedTraversals') =
                      Len(m_completedTraversals) + 1
          /\ hookCall'.hook = "none" =>
                /\ InFlight' = InFlight
                /\ Len(m_completedTraversals') = Len(m_completedTraversals)
      ]_vars

\* C32 witness: in a well-formed stream the second traversal has just been
\* closed
C32_Witness ==
    /\ wellFormed
    /\ hookCall.hook = "sectionTraversalEnded"
    /\ Len(m_completedTraversals) = 2
    /\ ~InFlight


\* as many stats as sections, and at least one
AllSectionsEnded(t) ==
    /\ Len(t.allSectionInfo) >= 1
    /\ Len(t.allSectionStats) = Len(t.allSectionInfo)

(***************************************************************************)
(* C33.  For every well-formed event stream, in every state between events *)
(* the current record is not complete: it has no sections and no stats, or *)
(* fewer stats than sections; so the in-flight entry at the end of         *)
(* getTraversals(), when there is one, is incomplete and every other entry *)
(* is complete.                                                            *)
(***************************************************************************)
C33_CurrentRecordIsNeverComplete ==
    wellFormed =>
        /\ \/ /\ m_currentTraversal.allSectionInfo = <<>>
              /\ m_currentTraversal.allSectionStats = <<>>
           \/ Len(m_currentTraversal.allSectionStats) <
                 Len(m_currentTraversal.allSectionInfo)
        /\ ~isComplete(m_currentTraversal)
        /\ \A i \in 1..Len(getTraversals) :
              AllSectionsEnded(getTraversals[i]) <=>
                  i <= Len(m_completedTraversals)

\* C33 witness: after one traversal was completed, a second one is in
\* flight with two sections open, one of them ended
C33_Witness ==
    /\ wellFormed
    /\ Len(m_completedTraversals) = 1
    /\ Len(getTraversals) = 2
    /\ Len(m_currentTraversal.allSectionInfo) = 2
    /\ Len(m_currentTraversal.allSectionStats) = 1

(***************************************************************************)
(* C34.  In a well-formed stream the last entry of the section stats of a  *)
(* completed traversal is the completion record of its root section, the   *)
(* first entry of its section path; so the name under which the reporter   *)
(* groups the traversal, taken from the last stats entry, is the name of   *)
(* the first section of the path.                                          *)
(***************************************************************************)
C34_LastStatsIsTheRootCompletion ==
    wellFormed =>
        \A i \in 1..Len(m_completedTestEntries) :
            \A j \in 1..Len(m_completedTestEntries[i].unwindContexts) :
                LET context == m_completedTestEntries[i].unwindContexts[j]
                IN  /\ unwindIsComplete(context)
                    /\ Last(context.allSectionStats).sectionInfo =
                          context.allSectionInfo[1]
                    /\ m_completedTestEntries[i].name =
                          getSanitizedTrxName(context.allSectionInfo[1].name)

\* the traversals Root/A/l1 and Root/A/l2 are grouped under Root
C34_Witness ==
    /\ wellFormed
    /\ Len(m_completedTestEntries) = 1
    /\ PathsOf(m_completedTestEntries[1]) =
          << << SectionRoot, SectionA, SectionLeaf1 >>,
             << SectionRoot, SectionA, SectionLeaf2 >> >>
    /\ m_completedTestEntries[1].name = SectionRoot.name

\* the record after the output "c" of a test case is appended to its stdout
\* text and the empty output to its stderr text
WithCaseOutput(t) ==
    [t EXCEPT !.m_stdOutStream = Insert(@, "c"),
              !.m_stdErrStream = Insert(@, "")]

\* a caseEnd of a test case that wrote "c" appends to one record, the
\* current one or the most recently completed one, and changes nothing else
CaseEndWritesOneRecord ==
    lastEvent' = "caseEnd" =>
        /\ IF \/ m_completedTraversals = <<>>
              \/ m_currentTraversal.fatalSignalName # ""
           THEN /\ m_currentTraversal' = WithCaseOutput(m_currentTraversal)
                /\ m_completedTraversals' = m_completedTraversals
           ELSE /\ m_currentTraversal' = m_currentTraversal
                /\ m_completedTraversals' =
                      [m_completedTraversals EXCEPT
                          ![Len(m_completedTraversals)] = WithCaseOutput(@)]
        /\ UNCHANGED << m_currentTestRunInfo, m_currentTestGroupInfo,
                        m_currentTestTags, stdOutSink, stdErrSink,
                        vstestVars >>

\* a traversal opens in a record that holds no output of a test case
OpensWithoutCaseOutput ==
    (/\ lastEvent' = "sectionStart"
     /\ m_currentTraversal.allSectionInfo = <<>>) =>
        \A k \in 1..Len(m_currentTraversal'.m_stdOutStream) :
            m_currentTraversal'.m_stdOutStream[k] # "c"

(***************************************************************************)
(* C35.  A caseEnd appends the stdout and stderr of the test case to one   *)
(* record and changes nothing else: the current record when the completed  *)
(* collection is empty or the current record carries a fatal signal,       *)
(* otherwise the most recently completed record; and text appended to a    *)
(* current record without sections is not attributed to a traversal of a   *)
(* later test case.                                                        *)
(***************************************************************************)
C35_CaseEndWritesOneRecord ==
    [][ CaseEndWritesOneRecord /\ OpensWithoutCaseOutput ]_vars

\* what holds: the caseEnd writes to that one record and to nothing else
C35_CaseEndWritesOneRecordOnly == [][ CaseEndWritesOneRecord ]_vars

\* a caseEnd wrote to the most recently completed record
C35_CompletedRecordWitness ==
    /\ lastEvent = "caseEnd"
    /\ Len(m_completedTraversals) = 2
    /\ m_completedTraversals[1].m_stdOutStream = <<>>
    /\ m_completedTraversals[2].m_stdOutStream = << "c" >>
    /\ m_currentTraversal.m_stdOutStream = <<>>

\* the output of a test case is held by a traversal that opened after it
C35_LaterTraversalWitness ==
    /\ lastEvent = "sectionStart"
    /\ m_currentTraversal.allSectionInfo = << SectionA >>
    /\ m_currentTraversal.m_stdOutStream = << "c" >>

\* the unwind context holds nothing of a traversal
HoldsNothing(context) ==
    /\ context.allSectionInfo = <<>>
    /\ context.allSectionStats = <<>>
    /\ context.allTerminatedAssertions = <<>>
    /\ ~context.hasFatalError
    /\ context.fatalAssertionSource = <<>>
    /\ context.stdOut = <<>>
    /\ context.stdErr = <<>>

\* the sectionEnd just delivered completed the unwind context, which was
\* flushed into a test entry
JustFlushed ==
    /\ lastEvent' = "sectionEnd"
    /\ UnwindCount' = UnwindCount
    /\ m_currentUnwindContext.allSectionInfo # <<>>
    /\ m_currentUnwindContext'.allSectionInfo = <<>>

\* the sectionStart just delivered opened a traversal
JustOpened ==
    /\ lastEvent' = "sectionStart"
    /\ m_currentUnwindContext.allSectionInfo = <<>>

(***************************************************************************)
(* C36.  Fatal-error state and captured text do not leak from one          *)
(* traversal to the next in the vstest reporter: after a completed unwind  *)
(* context is flushed into a test entry the current unwind context has no  *)
(* sections, stats or assertions, no fatal-error flag, no fatal source     *)
(* location and empty stdout and stderr, so that a traversal opened        *)
(* afterwards has no failure before an event of its own.                   *)
(***************************************************************************)
C36_NothingLeaksIntoTheNextTraversal ==
    [][ /\ JustFlushed => HoldsNothing(m_currentUnwindContext')
        /\ JustOpened => ~UnwindContext_hasFailures(m_currentUnwindContext')
      ]_vars

\* what holds: everything but the fatal-error flag is reset by the flush
C36_AllButTheFatalFlagIsReset ==
    [][ JustFlushed =>
            HoldsNothing([m_currentUnwindContext' EXCEPT
                             !.hasFatalError = FALSE]) ]_vars

\* a traversal of X has just opened after the traversal of Root/A/l1 ended
\* with a fatal signal, and the open context has a failure
C36_LeakWitness ==
    /\ lastEvent = "sectionStart"
    /\ m_currentUnwindContext.allSectionInfo = << SectionX >>
    /\ Len(m_completedTestEntries) = 1
    /\ UnwindContext_hasFailures(m_currentUnwindContext)

\* VstestResult::parseTraversals: one forward pass over the traversals that
\* begins a group when there is none or when the root of the traversal is
\* not the root of the traversal that opened the latest group
parseTraversals(traversals) ==
    LET grouped[n \in 0..Len(traversals)] ==
            IF n = 0 THEN <<>>
            ELSE LET groups == grouped[n - 1]
                     traversal == traversals[n]
                 IN  IF \/ groups = <<>>
                        \/ RootName(traversal) # RootName(Last(groups)[1])
                     THEN Append(groups, << traversal >>)
                     ELSE [groups EXCEPT
                              ![Len(groups)] = Append(@, traversal)]
    IN  grouped[Len(traversals)]

\* the unwind contexts that have completed, in the order of completion
CompletedUnwinds ==
    SubSeq(UnwindContextList, 1, Len(UnwindContextList) - 1)

\* the members of the test entries, entry by entry
EntryMembers ==
    [i \in 1..Len(m_completedTestEntries) |->
        m_completedTestEntries[i].unwindContexts]

MemberPaths ==
    LET done == m_completedTestEntries
        upTo[n \in 0..Len(done)] ==
            IF n = 0 THEN <<>> ELSE upTo[n - 1] \o PathsOf(done[n])
    IN  upTo[Len(done)]

\* the sectionEnd just delivered completed a traversal
JustCompleted ==
    /\ lastEvent' = "sectionEnd"
    /\ activeSections # <<>>
    /\ activeSections' = <<>>

\* no test entry is empty, and the members of the entries in entry order
\* are the traversals that completed, in the order of completion
EntriesPartitionTheCompleted ==
    wellFormed =>
        /\ \A i \in 1..Len(m_completedTestEntries) :
              m_completedTestEntries[i].unwindContexts # <<>>
        /\ MemberPaths = closedPaths

\* a completed traversal leaves the entries before the latest as they are,
\* and opens an entry when its root is not that of the latest entry, also
\* when an earlier entry has its root
NeverMergedBack ==
    (wellFormed /\ JustCompleted) =>
        LET old == m_completedTestEntries
            new == m_completedTestEntries'
            root == RootName(m_currentUnwindContext)
        IN  /\ Len(new) >= Len(old)
            /\ \A i \in 1..(Len(old) - 1) : new[i] = old[i]
            /\ (old # <<>> /\ Last(old).name # root) =>
                  /\ new = Append(old, Last(new))
                  /\ PathsOf(Last(new)) =
                        << m_currentUnwindContext.allSectionInfo >>

(***************************************************************************)
(* C38.  Grouping is an order-preserving partition of the completed        *)
(* traversals: every test entry holds at least one traversal, every        *)
(* completed traversal is in exactly one entry, and the members of the     *)
(* entries in entry order are the completed traversals in completion       *)
(* order; a traversal whose root is that of an earlier group that is not   *)
(* the latest opens a new group and is not merged back.                    *)
(***************************************************************************)
C38_GroupingIsAnOrderPreservingPartition ==
    /\ []EntriesPartitionTheCompleted
    /\ [][NeverMergedBack]_vars

\* the traversals A, X, A completed and make three groups
C38_Witness ==
    /\ wellFormed
    /\ lastEvent = "sectionEnd"
    /\ Len(m_completedTestEntries) = 3
    /\ MemberPaths = << << SectionA >>, << SectionX >>, << SectionA >> >>
    /\ closedPaths = MemberPaths

\* some result of the document written last has the outcome Failed
SomeResultFailed ==
    \E i \in 1..Len(m_xml[1].results) : m_xml[1].results[i].outcome = "Failed"

\* the summary outcome of the document written last: Failed in an
\* intermediate emission, that of the results in a final one
SummaryFollowsTheEmissionType ==
    m_xml # <<>> =>
        /\ m_xml[1].emissionType = "Intermediate" =>
              m_xml[1].outcome = "Failed"
        /\ m_xml[1].emissionType = "Final" =>
              (m_xml[1].outcome = "Failed" <=> SomeResultFailed)
        /\ JustEmitted =>
              /\ m_xml[1].emissionType = m_emissionType
              /\ m_xml[1].emissionType = "Final" =>
                    (m_xml[1].outcome = "Failed" <=>
                        \E i \in 1..Len(m_completedTestEntries) :
                            VstestEntry_hasFailures(m_completedTestEntries[i]))

\* the emission type is Final after a runEnd and stays Final
FinalIsKept ==
    /\ lastEvent' = "runEnd" => m_emissionType' = "Final"
    /\ m_emissionType = "Final" => m_emissionType' = "Final"
    /\ m_emissionType' = "Final" =>
          (m_emissionType = "Final" \/ lastEvent' = "runEnd")

(***************************************************************************)
(* C39.  Every intermediate emission has the summary outcome Failed,       *)
(* whatever the recorded results are; only in a final emission does the    *)
(* summary outcome follow the results, Failed exactly when a test entry    *)
(* has a failure; the emission type becomes Final at runEnd and does not   *)
(* return to Intermediate.                                                 *)
(***************************************************************************)
C39_OnlyTheFinalSummaryFollowsTheResults ==
    /\ []SummaryFollowsTheEmissionType
    /\ [][FinalIsKept]_vars

\* an intermediate document whose only completed result passed has the
\* summary outcome Failed
C39_IntermediateWitness ==
    /\ JustEmitted
    /\ m_xml[1].emissionType = "Intermediate"
    /\ Len(m_completedTestEntries) = 1
    /\ ~VstestEntry_hasFailures(m_completedTestEntries[1])
    /\ m_xml[1].results[1].outcome = "Passed"
    /\ m_xml[1].outcome = "Failed"

\* a final document with the summary outcome Passed
C39_FinalPassedWitness ==
    /\ lastEvent = "runEnd"
    /\ m_xml[1].emissionType = "Final"
    /\ Len(m_xml[1].results) = 2
    /\ m_xml[1].outcome = "Passed"

\* a document written at a section start after the end of a run is final
C39_AfterRunEndWitness ==
    /\ lastEvent = "sectionStart"
    /\ m_xml # <<>>
    /\ m_xml[1].emissionType = "Final"
    /\ m_xml[1].outcome = "Failed"

\* the stdout text of the current record followed by what the sink holds
CurrentOutInOrder == m_currentTraversal.m_stdOutStream \o stdOutSink

\* a failed assertion with the message "m", recorded in normal mode, appends
\* to the stdout text of the record what the sink holds and then the line of
\* the message, and leaves the sink empty
AssertionFlushesBeforeItsLines ==
    (/\ lastEvent' = "assertionEnd"
     /\ m_currentTraversal.fatalSignalName = "") =>
        /\ m_currentTraversal'.m_stdOutStream =
              m_currentTraversal.m_stdOutStream \o stdOutSink
                  \o << "INFO: m\n" >>
        /\ stdOutSink' = <<>>

\* while the current record is not promoted, text is added to its stdout
\* text and the sink at the end only
OutputIsAppendedAtTheEnd ==
    Len(m_completedTraversals') = Len(m_completedTraversals) =>
        /\ Len(CurrentOutInOrder') >= Len(CurrentOutInOrder)
        /\ SubSeq(CurrentOutInOrder', 1, Len(CurrentOutInOrder)) =
              CurrentOutInOrder

(***************************************************************************)
(* C40.  The captured text of a traversal is in chronological order: when  *)
(* an assertion that did not pass is recorded in normal mode, what was     *)
(* written to the redirected channel before it is appended to the stdout   *)
(* text of the record in front of the lines "INFO: <message>" of the       *)
(* assertion, and what is written after the assertion comes after those    *)
(* lines.                                                                  *)
(***************************************************************************)
C40_CapturedTextIsChronological ==
    [][ AssertionFlushesBeforeItsLines /\ OutputIsAppendedAtTheEnd ]_vars

\* a failed assertion was recorded after a write: the text written is in
\* front of the line of its message
C40_Witness ==
    /\ lastEvent = "assertionEnd"
    /\ m_currentTraversal.fatalSignalName = ""
    /\ m_currentTraversal.allSectionInfo = << SectionA >>
    /\ m_currentTraversal.m_stdOutStream = << "w", "INFO: m\n" >>
    /\ stdOutSink = <<>>

\* a traversal completed with a write after its failed assertion: the text
\* written is behind the line of the message
C40_WrittenAfterWitness ==
    /\ lastEvent = "sectionEnd"
    /\ Len(m_completedTraversals) = 1
    /\ m_completedTraversals[1].m_stdOutStream = << "INFO: m\n", "w" >>
    /\ stdOutSink = <<>>

=============================================================================
